---- MODULE Spec2Model ----
(***************************************************************************)
(* A model of the MOMO dashboard backend: the SMS amount extractor and the *)
(* XML record parser (backend/parser.py), the batch insert, the upload     *)
(* handler (backend/app.py) and the per-user queries and aggregates        *)
(* (backend/dashboard.py) over the transactions table.                     *)
(*                                                                         *)
(* Text is a sequence of one-character strings.  An amount is a number of  *)
(* pair <<units, hundredths>> (the patterns keep at most two decimals), so *)
(* the float 27000.0 is <<27000, 0>> here.  A timestamp in epoch milliseconds is the pair *)
(* <<day, ms>> = divmod(n, 86400000), which keeps every number in range.   *)
(***************************************************************************)
EXTENDS Integers, Sequences, FiniteSets, TLC

VARIABLES
    store,      \* the committed rows of the transactions table, in rowid order
    last,       \* the call or request in progress: its inputs and what it returned
    body,       \* the SMS body handed to extract_amount_from_body
    extracted,  \* whether extract_amount_from_body has run on body
    amount,     \* what extract_amount_from_body returned for body
    pieces      \* how many pieces of text body was put together from

vars == <<store, last, body, extracted, amount, pieces>>

\* An optional value: Python's None and SQL's NULL are None, a value x is
\* Some(x).
None == <<>>

Some(x) == <<x>>

Val(o) == o[1]

-----------------------------------------------------------------------------
(* Text helpers *)

\* A character is a one-character string. The characters a string of the
\* module cannot hold go by name: "quote", "backslash" and "backtick", and
\* the control characters and the characters outside ASCII by their code
\* point, as "U+000B" and "U+00A0".
Str1(c) == <<c>>

\* The ASCII digits.
Digits == <<"0", "1", "2", "3", "4", "5", "6", "7", "8", "9">>

\* The characters outside ASCII that the code tells from the rest, in code
\* order: the whitespace, the decimal digits (category Nd of Unicode 14, the
\* tables of Python 3.11) and the letters that re.IGNORECASE matches with an
\* ASCII letter of the patterns.
NonAscii ==
    <<"U+0085", "U+00A0", "U+0130", "U+0131", "U+017F", "U+0660", "U+0661", "U+0662", "U+0663", "U+0664",
      "U+0665", "U+0666", "U+0667", "U+0668", "U+0669", "U+06F0", "U+06F1", "U+06F2", "U+06F3", "U+06F4",
      "U+06F5", "U+06F6", "U+06F7", "U+06F8", "U+06F9", "U+07C0", "U+07C1", "U+07C2", "U+07C3", "U+07C4",
      "U+07C5", "U+07C6", "U+07C7", "U+07C8", "U+07C9", "U+0966", "U+0967", "U+0968", "U+0969", "U+096A",
      "U+096B", "U+096C", "U+096D", "U+096E", "U+096F", "U+09E6", "U+09E7", "U+09E8", "U+09E9", "U+09EA",
      "U+09EB", "U+09EC", "U+09ED", "U+09EE", "U+09EF", "U+0A66", "U+0A67", "U+0A68", "U+0A69", "U+0A6A",
      "U+0A6B", "U+0A6C", "U+0A6D", "U+0A6E", "U+0A6F", "U+0AE6", "U+0AE7", "U+0AE8", "U+0AE9", "U+0AEA",
      "U+0AEB", "U+0AEC", "U+0AED", "U+0AEE", "U+0AEF", "U+0B66", "U+0B67", "U+0B68", "U+0B69", "U+0B6A",
      "U+0B6B", "U+0B6C", "U+0B6D", "U+0B6E", "U+0B6F", "U+0BE6", "U+0BE7", "U+0BE8", "U+0BE9", "U+0BEA",
      "U+0BEB", "U+0BEC", "U+0BED", "U+0BEE", "U+0BEF", "U+0C66", "U+0C67", "U+0C68", "U+0C69", "U+0C6A",
      "U+0C6B", "U+0C6C", "U+0C6D", "U+0C6E", "U+0C6F", "U+0CE6", "U+0CE7", "U+0CE8", "U+0CE9", "U+0CEA",
      "U+0CEB", "U+0CEC", "U+0CED", "U+0CEE", "U+0CEF", "U+0D66", "U+0D67", "U+0D68", "U+0D69", "U+0D6A",
      "U+0D6B", "U+0D6C", "U+0D6D", "U+0D6E", "U+0D6F", "U+0DE6", "U+0DE7", "U+0DE8", "U+0DE9", "U+0DEA",
      "U+0DEB", "U+0DEC", "U+0DED", "U+0DEE", "U+0DEF", "U+0E50", "U+0E51", "U+0E52", "U+0E53", "U+0E54",
      "U+0E55", "U+0E56", "U+0E57", "U+0E58", "U+0E59", "U+0ED0", "U+0ED1", "U+0ED2", "U+0ED3", "U+0ED4",
      "U+0ED5", "U+0ED6", "U+0ED7", "U+0ED8", "U+0ED9", "U+0F20", "U+0F21", "U+0F22", "U+0F23", "U+0F24",
      "U+0F25", "U+0F26", "U+0F27", "U+0F28", "U+0F29", "U+1040", "U+1041", "U+1042", "U+1043", "U+1044",
      "U+1045", "U+1046", "U+1047", "U+1048", "U+1049", "U+1090", "U+1091", "U+1092", "U+1093", "U+1094",
      "U+1095", "U+1096", "U+1097", "U+1098", "U+1099", "U+1680", "U+17E0", "U+17E1", "U+17E2", "U+17E3",
      "U+17E4", "U+17E5", "U+17E6", "U+17E7", "U+17E8", "U+17E9", "U+1810", "U+1811", "U+1812", "U+1813",
      "U+1814", "U+1815", "U+1816", "U+1817", "U+1818", "U+1819", "U+1946", "U+1947", "U+1948", "U+1949",
      "U+194A", "U+194B", "U+194C", "U+194D", "U+194E", "U+194F", "U+19D0", "U+19D1", "U+19D2", "U+19D3",
      "U+19D4", "U+19D5", "U+19D6", "U+19D7", "U+19D8", "U+19D9", "U+1A80", "U+1A81", "U+1A82", "U+1A83",
      "U+1A84", "U+1A85", "U+1A86", "U+1A87", "U+1A88", "U+1A89", "U+1A90", "U+1A91", "U+1A92", "U+1A93",
      "U+1A94", "U+1A95", "U+1A96", "U+1A97", "U+1A98", "U+1A99", "U+1B50", "U+1B51", "U+1B52", "U+1B53",
      "U+1B54", "U+1B55", "U+1B56", "U+1B57", "U+1B58", "U+1B59", "U+1BB0", "U+1BB1", "U+1BB2", "U+1BB3",
      "U+1BB4", "U+1BB5", "U+1BB6", "U+1BB7", "U+1BB8", "U+1BB9", "U+1C40", "U+1C41", "U+1C42", "U+1C43",
      "U+1C44", "U+1C45", "U+1C46", "U+1C47", "U+1C48", "U+1C49", "U+1C50", "U+1C51", "U+1C52", "U+1C53",
      "U+1C54", "U+1C55", "U+1C56", "U+1C57", "U+1C58", "U+1C59", "U+2000", "U+2001", "U+2002", "U+2003",
      "U+2004", "U+2005", "U+2006", "U+2007", "U+2008", "U+2009", "U+200A", "U+2028", "U+2029", "U+202F",
      "U+205F", "U+3000", "U+A620", "U+A621", "U+A622", "U+A623", "U+A624", "U+A625", "U+A626", "U+A627",
      "U+A628", "U+A629", "U+A8D0", "U+A8D1", "U+A8D2", "U+A8D3", "U+A8D4", "U+A8D5", "U+A8D6", "U+A8D7",
      "U+A8D8", "U+A8D9", "U+A900", "U+A901", "U+A902", "U+A903", "U+A904", "U+A905", "U+A906", "U+A907",
      "U+A908", "U+A909", "U+A9D0", "U+A9D1", "U+A9D2", "U+A9D3", "U+A9D4", "U+A9D5", "U+A9D6", "U+A9D7",
      "U+A9D8", "U+A9D9", "U+A9F0", "U+A9F1", "U+A9F2", "U+A9F3", "U+A9F4", "U+A9F5", "U+A9F6", "U+A9F7",
      "U+A9F8", "U+A9F9", "U+AA50", "U+AA51", "U+AA52", "U+AA53", "U+AA54", "U+AA55", "U+AA56", "U+AA57",
      "U+AA58", "U+AA59", "U+ABF0", "U+ABF1", "U+ABF2", "U+ABF3", "U+ABF4", "U+ABF5", "U+ABF6", "U+ABF7",
      "U+ABF8", "U+ABF9", "U+FF10", "U+FF11", "U+FF12", "U+FF13", "U+FF14", "U+FF15", "U+FF16", "U+FF17",
      "U+FF18", "U+FF19", "U+104A0", "U+104A1", "U+104A2", "U+104A3", "U+104A4", "U+104A5", "U+104A6", "U+104A7",
      "U+104A8", "U+104A9", "U+10D30", "U+10D31", "U+10D32", "U+10D33", "U+10D34", "U+10D35", "U+10D36", "U+10D37",
      "U+10D38", "U+10D39", "U+11066", "U+11067", "U+11068", "U+11069", "U+1106A", "U+1106B", "U+1106C", "U+1106D",
      "U+1106E", "U+1106F", "U+110F0", "U+110F1", "U+110F2", "U+110F3", "U+110F4", "U+110F5", "U+110F6", "U+110F7",
      "U+110F8", "U+110F9", "U+11136", "U+11137", "U+11138", "U+11139", "U+1113A", "U+1113B", "U+1113C", "U+1113D",
      "U+1113E", "U+1113F", "U+111D0", "U+111D1", "U+111D2", "U+111D3", "U+111D4", "U+111D5", "U+111D6", "U+111D7",
      "U+111D8", "U+111D9", "U+112F0", "U+112F1", "U+112F2", "U+112F3", "U+112F4", "U+112F5", "U+112F6", "U+112F7",
      "U+112F8", "U+112F9", "U+11450", "U+11451", "U+11452", "U+11453", "U+11454", "U+11455", "U+11456", "U+11457",
      "U+11458", "U+11459", "U+114D0", "U+114D1", "U+114D2", "U+114D3", "U+114D4", "U+114D5", "U+114D6", "U+114D7",
      "U+114D8", "U+114D9", "U+11650", "U+11651", "U+11652", "U+11653", "U+11654", "U+11655", "U+11656", "U+11657",
      "U+11658", "U+11659", "U+116C0", "U+116C1", "U+116C2", "U+116C3", "U+116C4", "U+116C5", "U+116C6", "U+116C7",
      "U+116C8", "U+116C9", "U+11730", "U+11731", "U+11732", "U+11733", "U+11734", "U+11735", "U+11736", "U+11737",
      "U+11738", "U+11739", "U+118E0", "U+118E1", "U+118E2", "U+118E3", "U+118E4", "U+118E5", "U+118E6", "U+118E7",
      "U+118E8", "U+118E9", "U+11950", "U+11951", "U+11952", "U+11953", "U+11954", "U+11955", "U+11956", "U+11957",
      "U+11958", "U+11959", "U+11C50", "U+11C51", "U+11C52", "U+11C53", "U+11C54", "U+11C55", "U+11C56", "U+11C57",
      "U+11C58", "U+11C59", "U+11D50", "U+11D51", "U+11D52", "U+11D53", "U+11D54", "U+11D55", "U+11D56", "U+11D57",
      "U+11D58", "U+11D59", "U+11DA0", "U+11DA1", "U+11DA2", "U+11DA3", "U+11DA4", "U+11DA5", "U+11DA6", "U+11DA7",
      "U+11DA8", "U+11DA9", "U+16A60", "U+16A61", "U+16A62", "U+16A63", "U+16A64", "U+16A65", "U+16A66", "U+16A67",
      "U+16A68", "U+16A69", "U+16AC0", "U+16AC1", "U+16AC2", "U+16AC3", "U+16AC4", "U+16AC5", "U+16AC6", "U+16AC7",
      "U+16AC8", "U+16AC9", "U+16B50", "U+16B51", "U+16B52", "U+16B53", "U+16B54", "U+16B55", "U+16B56", "U+16B57",
      "U+16B58", "U+16B59", "U+1D7CE", "U+1D7CF", "U+1D7D0", "U+1D7D1", "U+1D7D2", "U+1D7D3", "U+1D7D4", "U+1D7D5",
      "U+1D7D6", "U+1D7D7", "U+1D7D8", "U+1D7D9", "U+1D7DA", "U+1D7DB", "U+1D7DC", "U+1D7DD", "U+1D7DE", "U+1D7DF",
      "U+1D7E0", "U+1D7E1", "U+1D7E2", "U+1D7E3", "U+1D7E4", "U+1D7E5", "U+1D7E6", "U+1D7E7", "U+1D7E8", "U+1D7E9",
      "U+1D7EA", "U+1D7EB", "U+1D7EC", "U+1D7ED", "U+1D7EE", "U+1D7EF", "U+1D7F0", "U+1D7F1", "U+1D7F2", "U+1D7F3",
      "U+1D7F4", "U+1D7F5", "U+1D7F6", "U+1D7F7", "U+1D7F8", "U+1D7F9", "U+1D7FA", "U+1D7FB", "U+1D7FC", "U+1D7FD",
      "U+1D7FE", "U+1D7FF", "U+1E140", "U+1E141", "U+1E142", "U+1E143", "U+1E144", "U+1E145", "U+1E146", "U+1E147",
      "U+1E148", "U+1E149", "U+1E2F0", "U+1E2F1", "U+1E2F2", "U+1E2F3", "U+1E2F4", "U+1E2F5", "U+1E2F6", "U+1E2F7",
      "U+1E2F8", "U+1E2F9", "U+1E950", "U+1E951", "U+1E952", "U+1E953", "U+1E954", "U+1E955", "U+1E956", "U+1E957",
      "U+1E958", "U+1E959", "U+1FBF0", "U+1FBF1", "U+1FBF2", "U+1FBF3", "U+1FBF4", "U+1FBF5", "U+1FBF6", "U+1FBF7",
      "U+1FBF8", "U+1FBF9">>

\* Their code points, in the same order.
NonAsciiCode ==
    <<133, 160, 304, 305, 383, 1632, 1633, 1634, 1635, 1636, 1637, 1638,
      1639, 1640, 1641, 1776, 1777, 1778, 1779, 1780, 1781, 1782, 1783, 1784,
      1785, 1984, 1985, 1986, 1987, 1988, 1989, 1990, 1991, 1992, 1993, 2406,
      2407, 2408, 2409, 2410, 2411, 2412, 2413, 2414, 2415, 2534, 2535, 2536,
      2537, 2538, 2539, 2540, 2541, 2542, 2543, 2662, 2663, 2664, 2665, 2666,
      2667, 2668, 2669, 2670, 2671, 2790, 2791, 2792, 2793, 2794, 2795, 2796,
      2797, 2798, 2799, 2918, 2919, 2920, 2921, 2922, 2923, 2924, 2925, 2926,
      2927, 3046, 3047, 3048, 3049, 3050, 3051, 3052, 3053, 3054, 3055, 3174,
      3175, 3176, 3177, 3178, 3179, 3180, 3181, 3182, 3183, 3302, 3303, 3304,
      3305, 3306, 3307, 3308, 3309, 3310, 3311, 3430, 3431, 3432, 3433, 3434,
      3435, 3436, 3437, 3438, 3439, 3558, 3559, 3560, 3561, 3562, 3563, 3564,
      3565, 3566, 3567, 3664, 3665, 3666, 3667, 3668, 3669, 3670, 3671, 3672,
      3673, 3792, 3793, 3794, 3795, 3796, 3797, 3798, 3799, 3800, 3801, 3872,
      3873, 3874, 3875, 3876, 3877, 3878, 3879, 3880, 3881, 4160, 4161, 4162,
      4163, 4164, 4165, 4166, 4167, 4168, 4169, 4240, 4241, 4242, 4243, 4244,
      4245, 4246, 4247, 4248, 4249, 5760, 6112, 6113, 6114, 6115, 6116, 6117,
      6118, 6119, 6120, 6121, 6160, 6161, 6162, 6163, 6164, 6165, 6166, 6167,
      6168, 6169, 6470, 6471, 6472, 6473, 6474, 6475, 6476, 6477, 6478, 6479,
      6608, 6609, 6610, 6611, 6612, 6613, 6614, 6615, 6616, 6617, 6784, 6785,
      6786, 6787, 6788, 6789, 6790, 6791, 6792, 6793, 6800, 6801, 6802, 6803,
      6804, 6805, 6806, 6807, 6808, 6809, 6992, 6993, 6994, 6995, 6996, 6997,
      6998, 6999, 7000, 7001, 7088, 7089, 7090, 7091, 7092, 7093, 7094, 7095,
      7096, 7097, 7232, 7233, 7234, 7235, 7236, 7237, 7238, 7239, 7240, 7241,
      7248, 7249, 7250, 7251, 7252, 7253, 7254, 7255, 7256, 7257, 8192, 8193,
      8194, 8195, 8196, 8197, 8198, 8199, 8200, 8201, 8202, 8232, 8233, 8239,
      8287, 12288, 42528, 42529, 42530, 42531, 42532, 42533, 42534, 42535, 42536, 42537,
      43216, 43217, 43218, 43219, 43220, 43221, 43222, 43223, 43224, 43225, 43264, 43265,
      43266, 43267, 43268, 43269, 43270, 43271, 43272, 43273, 43472, 43473, 43474, 43475,
      43476, 43477, 43478, 43479, 43480, 43481, 43504, 43505, 43506, 43507, 43508, 43509,
      43510, 43511, 43512, 43513, 43600, 43601, 43602, 43603, 43604, 43605, 43606, 43607,
      43608, 43609, 44016, 44017, 44018, 44019, 44020, 44021, 44022, 44023, 44024, 44025,
      65296, 65297, 65298, 65299, 65300, 65301, 65302, 65303, 65304, 65305, 66720, 66721,
      66722, 66723, 66724, 66725, 66726, 66727, 66728, 66729, 68912, 68913, 68914, 68915,
      68916, 68917, 68918, 68919, 68920, 68921, 69734, 69735, 69736, 69737, 69738, 69739,
      69740, 69741, 69742, 69743, 69872, 69873, 69874, 69875, 69876, 69877, 69878, 69879,
      69880, 69881, 69942, 69943, 69944, 69945, 69946, 69947, 69948, 69949, 69950, 69951,
      70096, 70097, 70098, 70099, 70100, 70101, 70102, 70103, 70104, 70105, 70384, 70385,
      70386, 70387, 70388, 70389, 70390, 70391, 70392, 70393, 70736, 70737, 70738, 70739,
      70740, 70741, 70742, 70743, 70744, 70745, 70864, 70865, 70866, 70867, 70868, 70869,
      70870, 70871, 70872, 70873, 71248, 71249, 71250, 71251, 71252, 71253, 71254, 71255,
      71256, 71257, 71360, 71361, 71362, 71363, 71364, 71365, 71366, 71367, 71368, 71369,
      71472, 71473, 71474, 71475, 71476, 71477, 71478, 71479, 71480, 71481, 71904, 71905,
      71906, 71907, 71908, 71909, 71910, 71911, 71912, 71913, 72016, 72017, 72018, 72019,
      72020, 72021, 72022, 72023, 72024, 72025, 72784, 72785, 72786, 72787, 72788, 72789,
      72790, 72791, 72792, 72793, 73040, 73041, 73042, 73043, 73044, 73045, 73046, 73047,
      73048, 73049, 73120, 73121, 73122, 73123, 73124, 73125, 73126, 73127, 73128, 73129,
      92768, 92769, 92770, 92771, 92772, 92773, 92774, 92775, 92776, 92777, 92864, 92865,
      92866, 92867, 92868, 92869, 92870, 92871, 92872, 92873, 93008, 93009, 93010, 93011,
      93012, 93013, 93014, 93015, 93016, 93017, 120782, 120783, 120784, 120785, 120786, 120787,
      120788, 120789, 120790, 120791, 120792, 120793, 120794, 120795, 120796, 120797, 120798, 120799,
      120800, 120801, 120802, 120803, 120804, 120805, 120806, 120807, 120808, 120809, 120810, 120811,
      120812, 120813, 120814, 120815, 120816, 120817, 120818, 120819, 120820, 120821, 120822, 120823,
      120824, 120825, 120826, 120827, 120828, 120829, 120830, 120831, 123200, 123201, 123202, 123203,
      123204, 123205, 123206, 123207, 123208, 123209, 123632, 123633, 123634, 123635, 123636, 123637,
      123638, 123639, 123640, 123641, 125264, 125265, 125266, 125267, 125268, 125269, 125270, 125271,
      125272, 125273, 130032, 130033, 130034, 130035, 130036, 130037, 130038, 130039, 130040, 130041>>

\* Whether a character is one of them, and its place in that order.
IsNonAscii(c) == \E k \in 1..Len(NonAscii) : NonAscii[k] = c

RankOf(c) == CHOOSE k \in 1..Len(NonAscii) : NonAscii[k] = c

\* The decimal digits among them by value: the digits of value 0 first,
\* those of value 9 last.
OtherDigits ==
    <<{"U+0660", "U+06F0", "U+07C0", "U+0966", "U+09E6", "U+0A66", "U+0AE6", "U+0B66",
      "U+0BE6", "U+0C66", "U+0CE6", "U+0D66", "U+0DE6", "U+0E50", "U+0ED0", "U+0F20",
      "U+1040", "U+1090", "U+17E0", "U+1810", "U+1946", "U+19D0", "U+1A80", "U+1A90",
      "U+1B50", "U+1BB0", "U+1C40", "U+1C50", "U+A620", "U+A8D0", "U+A900", "U+A9D0",
      "U+A9F0", "U+AA50", "U+ABF0", "U+FF10", "U+104A0", "U+10D30", "U+11066", "U+110F0",
      "U+11136", "U+111D0", "U+112F0", "U+11450", "U+114D0", "U+11650", "U+116C0", "U+11730",
      "U+118E0", "U+11950", "U+11C50", "U+11D50", "U+11DA0", "U+16A60", "U+16AC0", "U+16B50",
      "U+1D7CE", "U+1D7D8", "U+1D7E2", "U+1D7EC", "U+1D7F6", "U+1E140", "U+1E2F0", "U+1E950",
      "U+1FBF0"},
     {"U+0661", "U+06F1", "U+07C1", "U+0967", "U+09E7", "U+0A67", "U+0AE7", "U+0B67",
      "U+0BE7", "U+0C67", "U+0CE7", "U+0D67", "U+0DE7", "U+0E51", "U+0ED1", "U+0F21",
      "U+1041", "U+1091", "U+17E1", "U+1811", "U+1947", "U+19D1", "U+1A81", "U+1A91",
      "U+1B51", "U+1BB1", "U+1C41", "U+1C51", "U+A621", "U+A8D1", "U+A901", "U+A9D1",
      "U+A9F1", "U+AA51", "U+ABF1", "U+FF11", "U+104A1", "U+10D31", "U+11067", "U+110F1",
      "U+11137", "U+111D1", "U+112F1", "U+11451", "U+114D1", "U+11651", "U+116C1", "U+11731",
      "U+118E1", "U+11951", "U+11C51", "U+11D51", "U+11DA1", "U+16A61", "U+16AC1", "U+16B51",
      "U+1D7CF", "U+1D7D9", "U+1D7E3", "U+1D7ED", "U+1D7F7", "U+1E141", "U+1E2F1", "U+1E951",
      "U+1FBF1"},
     {"U+0662", "U+06F2", "U+07C2", "U+0968", "U+09E8", "U+0A68", "U+0AE8", "U+0B68",
      "U+0BE8", "U+0C68", "U+0CE8", "U+0D68", "U+0DE8", "U+0E52", "U+0ED2", "U+0F22",
      "U+1042", "U+1092", "U+17E2", "U+1812", "U+1948", "U+19D2", "U+1A82", "U+1A92",
      "U+1B52", "U+1BB2", "U+1C42", "U+1C52", "U+A622", "U+A8D2", "U+A902", "U+A9D2",
      "U+A9F2", "U+AA52", "U+ABF2", "U+FF12", "U+104A2", "U+10D32", "U+11068", "U+110F2",
      "U+11138", "U+111D2", "U+112F2", "U+11452", "U+114D2", "U+11652", "U+116C2", "U+11732",
      "U+118E2", "U+11952", "U+11C52", "U+11D52", "U+11DA2", "U+16A62", "U+16AC2", "U+16B52",
      "U+1D7D0", "U+1D7DA", "U+1D7E4", "U+1D7EE", "U+1D7F8", "U+1E142", "U+1E2F2", "U+1E952",
      "U+1FBF2"},
     {"U+0663", "U+06F3", "U+07C3", "U+0969", "U+09E9", "U+0A69", "U+0AE9", "U+0B69",
      "U+0BE9", "U+0C69", "U+0CE9", "U+0D69", "U+0DE9", "U+0E53", "U+0ED3", "U+0F23",
      "U+1043", "U+1093", "U+17E3", "U+1813", "U+1949", "U+19D3", "U+1A83", "U+1A93",
      "U+1B53", "U+1BB3", "U+1C43", "U+1C53", "U+A623", "U+A8D3", "U+A903", "U+A9D3",
      "U+A9F3", "U+AA53", "U+ABF3", "U+FF13", "U+104A3", "U+10D33", "U+11069", "U+110F3",
      "U+11139", "U+111D3", "U+112F3", "U+11453", "U+114D3", "U+11653", "U+116C3", "U+11733",
      "U+118E3", "U+11953", "U+11C53", "U+11D53", "U+11DA3", "U+16A63", "U+16AC3", "U+16B53",
      "U+1D7D1", "U+1D7DB", "U+1D7E5", "U+1D7EF", "U+1D7F9", "U+1E143", "U+1E2F3", "U+1E953",
      "U+1FBF3"},
     {"U+0664", "U+06F4", "U+07C4", "U+096A", "U+09EA", "U+0A6A", "U+0AEA", "U+0B6A",
      "U+0BEA", "U+0C6A", "U+0CEA", "U+0D6A", "U+0DEA", "U+0E54", "U+0ED4", "U+0F24",
      "U+1044", "U+1094", "U+17E4", "U+1814", "U+194A", "U+19D4", "U+1A84", "U+1A94",
      "U+1B54", "U+1BB4", "U+1C44", "U+1C54", "U+A624", "U+A8D4", "U+A904", "U+A9D4",
      "U+A9F4", "U+AA54", "U+ABF4", "U+FF14", "U+104A4", "U+10D34", "U+1106A", "U+110F4",
      "U+1113A", "U+111D4", "U+112F4", "U+11454", "U+114D4", "U+11654", "U+116C4", "U+11734",
      "U+118E4", "U+11954", "U+11C54", "U+11D54", "U+11DA4", "U+16A64", "U+16AC4", "U+16B54",
      "U+1D7D2", "U+1D7DC", "U+1D7E6", "U+1D7F0", "U+1D7FA", "U+1E144", "U+1E2F4", "U+1E954",
      "U+1FBF4"},
     {"U+0665", "U+06F5", "U+07C5", "U+096B", "U+09EB", "U+0A6B", "U+0AEB", "U+0B6B",
      "U+0BEB", "U+0C6B", "U+0CEB", "U+0D6B", "U+0DEB", "U+0E55", "U+0ED5", "U+0F25",
      "U+1045", "U+1095", "U+17E5", "U+1815", "U+194B", "U+19D5", "U+1A85", "U+1A95",
      "U+1B55", "U+1BB5", "U+1C45", "U+1C55", "U+A625", "U+A8D5", "U+A905", "U+A9D5",
      "U+A9F5", "U+AA55", "U+ABF5", "U+FF15", "U+104A5", "U+10D35", "U+1106B", "U+110F5",
      "U+1113B", "U+111D5", "U+112F5", "U+11455", "U+114D5", "U+11655", "U+116C5", "U+11735",
      "U+118E5", "U+11955", "U+11C55", "U+11D55", "U+11DA5", "U+16A65", "U+16AC5", "U+16B55",
      "U+1D7D3", "U+1D7DD", "U+1D7E7", "U+1D7F1", "U+1D7FB", "U+1E145", "U+1E2F5", "U+1E955",
      "U+1FBF5"},
     {"U+0666", "U+06F6", "U+07C6", "U+096C", "U+09EC", "U+0A6C", "U+0AEC", "U+0B6C",
      "U+0BEC", "U+0C6C", "U+0CEC", "U+0D6C", "U+0DEC", "U+0E56", "U+0ED6", "U+0F26",
      "U+1046", "U+1096", "U+17E6", "U+1816", "U+194C", "U+19D6", "U+1A86", "U+1A96",
      "U+1B56", "U+1BB6", "U+1C46", "U+1C56", "U+A626", "U+A8D6", "U+A906", "U+A9D6",
      "U+A9F6", "U+AA56", "U+ABF6", "U+FF16", "U+104A6", "U+10D36", "U+1106C", "U+110F6",
      "U+1113C", "U+111D6", "U+112F6", "U+11456", "U+114D6", "U+11656", "U+116C6", "U+11736",
      "U+118E6", "U+11956", "U+11C56", "U+11D56", "U+11DA6", "U+16A66", "U+16AC6", "U+16B56",
      "U+1D7D4", "U+1D7DE", "U+1D7E8", "U+1D7F2", "U+1D7FC", "U+1E146", "U+1E2F6", "U+1E956",
      "U+1FBF6"},
     {"U+0667", "U+06F7", "U+07C7", "U+096D", "U+09ED", "U+0A6D", "U+0AED", "U+0B6D",
      "U+0BED", "U+0C6D", "U+0CED", "U+0D6D", "U+0DED", "U+0E57", "U+0ED7", "U+0F27",
      "U+1047", "U+1097", "U+17E7", "U+1817", "U+194D", "U+19D7", "U+1A87", "U+1A97",
      "U+1B57", "U+1BB7", "U+1C47", "U+1C57", "U+A627", "U+A8D7", "U+A907", "U+A9D7",
      "U+A9F7", "U+AA57", "U+ABF7", "U+FF17", "U+104A7", "U+10D37", "U+1106D", "U+110F7",
      "U+1113D", "U+111D7", "U+112F7", "U+11457", "U+114D7", "U+11657", "U+116C7", "U+11737",
      "U+118E7", "U+11957", "U+11C57", "U+11D57", "U+11DA7", "U+16A67", "U+16AC7", "U+16B57",
      "U+1D7D5", "U+1D7DF", "U+1D7E9", "U+1D7F3", "U+1D7FD", "U+1E147", "U+1E2F7", "U+1E957",
      "U+1FBF7"},
     {"U+0668", "U+06F8", "U+07C8", "U+096E", "U+09EE", "U+0A6E", "U+0AEE", "U+0B6E",
      "U+0BEE", "U+0C6E", "U+0CEE", "U+0D6E", "U+0DEE", "U+0E58", "U+0ED8", "U+0F28",
      "U+1048", "U+1098", "U+17E8", "U+1818", "U+194E", "U+19D8", "U+1A88", "U+1A98",
      "U+1B58", "U+1BB8", "U+1C48", "U+1C58", "U+A628", "U+A8D8", "U+A908", "U+A9D8",
      "U+A9F8", "U+AA58", "U+ABF8", "U+FF18", "U+104A8", "U+10D38", "U+1106E", "U+110F8",
      "U+1113E", "U+111D8", "U+112F8", "U+11458", "U+114D8", "U+11658", "U+116C8", "U+11738",
      "U+118E8", "U+11958", "U+11C58", "U+11D58", "U+11DA8", "U+16A68", "U+16AC8", "U+16B58",
      "U+1D7D6", "U+1D7E0", "U+1D7EA", "U+1D7F4", "U+1D7FE", "U+1E148", "U+1E2F8", "U+1E958",
      "U+1FBF8"},
     {"U+0669", "U+06F9", "U+07C9", "U+096F", "U+09EF", "U+0A6F", "U+0AEF", "U+0B6F",
      "U+0BEF", "U+0C6F", "U+0CEF", "U+0D6F", "U+0DEF", "U+0E59", "U+0ED9", "U+0F29",
      "U+1049", "U+1099", "U+17E9", "U+1819", "U+194F", "U+19D9", "U+1A89", "U+1A99",
      "U+1B59", "U+1BB9", "U+1C49", "U+1C59", "U+A629", "U+A8D9", "U+A909", "U+A9D9",
      "U+A9F9", "U+AA59", "U+ABF9", "U+FF19", "U+104A9", "U+10D39", "U+1106F", "U+110F9",
      "U+1113F", "U+111D9", "U+112F9", "U+11459", "U+114D9", "U+11659", "U+116C9", "U+11739",
      "U+118E9", "U+11959", "U+11C59", "U+11D59", "U+11DA9", "U+16A69", "U+16AC9", "U+16B59",
      "U+1D7D7", "U+1D7E1", "U+1D7EB", "U+1D7F5", "U+1D7FF", "U+1E149", "U+1E2F9", "U+1E959",
      "U+1FBF9"}>>

\* All of them.
OtherDigitSet == UNION {OtherDigits[v] : v \in 1..10}

IsAsciiDigit(c) == c \in {"0", "1", "2", "3", "4", "5", "6", "7", "8", "9"}

\* The characters \d matches in a str pattern, which int() and float() read
\* as digits too: every decimal digit of Unicode.
IsDigit(c) == IsAsciiDigit(c) \/ c \in OtherDigitSet

\* The value of a digit character.
DigitVal(c) ==
    IF IsAsciiDigit(c) THEN (CHOOSE k \in 1..10 : Digits[k] = c) - 1
    ELSE (CHOOSE v \in 1..10 : c \in OtherDigits[v]) - 1

\* The whitespace outside ASCII.
OtherSpaces ==
    {"U+0085", "U+00A0", "U+1680", "U+2000", "U+2001", "U+2002", "U+2003", "U+2004",
     "U+2005", "U+2006", "U+2007", "U+2008", "U+2009", "U+200A", "U+2028", "U+2029",
     "U+202F", "U+205F", "U+3000"}

\* The characters \s matches in a str pattern (str.isspace): tab, newline,
\* vertical tab, form feed, carriage return, the four separators U+001C to
\* U+001F, the space, and the whitespace outside ASCII.
IsSpace(c) ==
    \/ c \in {"\t", "\n", "U+000B", "\f", "\r", "U+001C", "U+001D", "U+001E", "U+001F", " "}
    \/ c \in OtherSpaces

\* The whitespace int() drops at the ends of a text: that of the C library
\* and that outside ASCII, not the separators U+001C to U+001F.
IsIntSpace(c) == c \in {"\t", "\n", "U+000B", "\f", "\r", " "} \/ c \in OtherSpaces

UpperToLower ==
    [c \in {"A","B","C","D","E","F","G","H","I","J","K","L","M","N","O","P","Q",
            "R","S","T","U","V","W","X","Y","Z"} |->
        CASE c = "A" -> "a" [] c = "B" -> "b" [] c = "C" -> "c" [] c = "D" -> "d"
          [] c = "E" -> "e" [] c = "F" -> "f" [] c = "G" -> "g" [] c = "H" -> "h"
          [] c = "I" -> "i" [] c = "J" -> "j" [] c = "K" -> "k" [] c = "L" -> "l"
          [] c = "M" -> "m" [] c = "N" -> "n" [] c = "O" -> "o" [] c = "P" -> "p"
          [] c = "Q" -> "q" [] c = "R" -> "r" [] c = "S" -> "s" [] c = "T" -> "t"
          [] c = "U" -> "u" [] c = "V" -> "v" [] c = "W" -> "w" [] c = "X" -> "x"
          [] c = "Y" -> "y" [] c = "Z" -> "z"]

\* re.IGNORECASE compares characters after case folding. Beside the ASCII
\* letters, the dotted capital I (U+0130) and the dotless i (U+0131) match
\* an i of a pattern, and the long s (U+017F) an s.
Lower(c) ==
    IF c \in DOMAIN UpperToLower THEN UpperToLower[c]
    ELSE IF c \in {"U+0130", "U+0131"} THEN "i"
    ELSE IF c = "U+017F" THEN "s"
    ELSE c

\* Whether the literal lit occurs in s at position i (1-based), under
\* re.IGNORECASE when ci.
LitAt(s, i, lit, ci) ==
    /\ i >= 1
    /\ i + Len(lit) - 1 <= Len(s)
    /\ \A k \in 1..Len(lit) :
          IF ci THEN Lower(s[i + k - 1]) = Lower(lit[k]) ELSE s[i + k - 1] = lit[k]

\* Whether s[i..i+n-1] are n digits.
DigitsAt(s, i, n) ==
    /\ i >= 1
    /\ i + n - 1 <= Len(s)
    /\ \A k \in 0..(n - 1) : IsDigit(s[i + k])

\* Whether s[i..i+n-1] are n whitespace characters.
SpacesAt(s, i, n) ==
    /\ i + n - 1 <= Len(s)
    /\ \A k \in 0..(n - 1) : IsSpace(s[i + k])

\* Python's s[i-1:j]: the characters i to j of s that exist.
Slice(s, i, j) == SubSeq(s, i, IF j > Len(s) THEN Len(s) ELSE j)

\* The smallest element of a nonempty set of integers.
MinOf(S) == CHOOSE x \in S : \A y \in S : x <= y

\* The largest element of a nonempty set of integers.
MaxOf(S) == CHOOSE x \in S : \A y \in S : x >= y

-----------------------------------------------------------------------------
(* backend/parser.py: extract_amount_from_body *)

\* (?:,\d{3}){k} at position p.
CommaGroupsAt(s, p, k) ==
    \A g \in 0..(k - 1) :
        /\ p + 4 * g <= Len(s)
        /\ s[p + 4 * g] = ","
        /\ DigitsAt(s, p + 4 * g + 1, 3)

\* (?:\.\d{1,2})? at position q taking d digits; d = 0 is the group skipped.
DecimalAt(s, q, d) ==
    \/ d = 0
    \/ /\ d \in 1..2
       /\ q <= Len(s)
       /\ s[q] = "."
       /\ DigitsAt(s, q + 1, d)

\* The position after a number at i with n integer digits, k comma groups and
\* d decimal digits.
NumberStop(i, c) == i + c[1] + 4 * c[2] + (IF c[3] = 0 THEN 0 ELSE c[3] + 1)

\* Every way \d{lo,hi}(?:,\d{3})*(?:\.\d{1,2})? matches at position i, as
\* <<integer digits, comma groups, decimal digits>>.
NumberCands(s, i, lo, hi) ==
    {c \in (lo..hi) \X (0..(Len(s) \div 4)) \X (0..2) :
        /\ DigitsAt(s, i, c[1])
        /\ CommaGroupsAt(s, i + c[1], c[2])
        /\ DecimalAt(s, i + c[1] + 4 * c[2], c[3])}

\* The order in which the backtracking matcher tries the ways: every
\* quantifier is greedy, the leftmost quantifier deciding first.
TriedBefore(c, d) ==
    \/ c[1] > d[1]
    \/ c[1] = d[1] /\ c[2] > d[2]
    \/ c[1] = d[1] /\ c[2] = d[2] /\ c[3] >= d[3]

FirstTried(C) == CHOOSE c \in C : \A d \in C : TriedBefore(c, d)

\* \s*RWF at position e, under re.IGNORECASE.
RwfTailAt(s, e) ==
    \E m \in 0..Len(s) : SpacesAt(s, e, m) /\ LitAt(s, e + m, <<"R", "W", "F">>, TRUE)

\* The ways pattern 1 matches at i: a number of \d{1,3} shape that \s*RWF follows.
RwfCandsAt(s, i) == {c \in NumberCands(s, i, 1, 3) : RwfTailAt(s, NumberStop(i, c))}

\* A match object's group(1), as the span [start, stop) of the text.
Span(i, j) == [start |-> i, stop |-> j]

GroupText(s, m) == SubSeq(s, m.start, m.stop - 1)

\* A search that keeps the last currency-tagged number instead of the first.
match_rwf_last(s) ==
    LET at == {i \in 1..Len(s) : RwfCandsAt(s, i) # {}}
    IN  IF at = {} THEN None
        ELSE LET i == MaxOf(at)
             IN  Some(Span(i, NumberStop(i, FirstTried(RwfCandsAt(s, i)))))

\* re.search of pattern 1: the leftmost position where it matches, and there
\* the first way tried.
match_rwf(s) ==
    LET at == {i \in 1..Len(s) : RwfCandsAt(s, i) # {}}
    IN  IF at = {} THEN None
        ELSE LET i == MinOf(at)
             IN  Some(Span(i, NumberStop(i, FirstTried(RwfCandsAt(s, i)))))

\* The anchors of pattern 2, in the order of the alternation.
Keywords ==
    << <<"r","e","c","e","i","v","e","d">>,
       <<"p","a","y","m","e","n","t"," ","o","f">>,
       <<"i","s",":">>,
       <<"b","a","l","a","n","c","e",":">>,
       <<"T","o","t","a","l",":">> >>

\* The position after the longest run of whitespace at p (\s* is greedy; a
\* number starts with a digit, so giving whitespace back never helps).
SkipSpaces(s, p) == MinOf({q \in p..(Len(s) + 1) : q > Len(s) \/ ~IsSpace(s[q])})

\* Where the number of pattern 2 starts when an anchor is at i, or 0.
PhraseNumberAt(s, i) ==
    LET hit == {k \in 1..Len(Keywords) :
                   /\ LitAt(s, i, Keywords[k], TRUE)
                   /\ NumberCands(s, SkipSpaces(s, i + Len(Keywords[k])), 1, 3) # {}}
    IN  IF hit = {} THEN 0 ELSE SkipSpaces(s, i + Len(Keywords[MinOf(hit)]))

\* re.search of pattern 2.
match_phrases(s) ==
    LET at == {i \in 1..Len(s) : PhraseNumberAt(s, i) # 0}
    IN  IF at = {} THEN None
        ELSE LET p == PhraseNumberAt(s, MinOf(at))
             IN  Some(Span(p, NumberStop(p, FirstTried(NumberCands(s, p, 1, 3)))))

\* re.search of pattern 3: \d{2,} takes the integer part.
match_general_number(s) ==
    LET at == {i \in 1..Len(s) : NumberCands(s, i, 2, Len(s) - i + 1) # {}}
    IN  IF at = {} THEN None
        ELSE LET i == MinOf(at)
             IN  Some(Span(i, NumberStop(i, FirstTried(NumberCands(s, i, 2, Len(s) - i + 1)))))

\* str.replace(',', '')
RECURSIVE StripCommas(_)
StripCommas(t) ==
    IF t = <<>> THEN <<>>
    ELSE IF Head(t) = "," THEN StripCommas(Tail(t))
    ELSE <<Head(t)>> \o StripCommas(Tail(t))

\* int() of a run of digits.
RECURSIVE DigitsValue(_)
DigitsValue(t) ==
    IF t = <<>> THEN 0
    ELSE 10 * DigitsValue(SubSeq(t, 1, Len(t) - 1)) + DigitVal(t[Len(t)])

\* An amount is a double, held as <<whole units, hundredths>>: the double
\* rounded to hundredths, which tells apart every two doubles float() gives
\* for a number of the patterns (below 2^46 two such numbers are two doubles
\* less than 0.005 from them, above it two doubles are more than 0.01
\* apart). Inf is the double inf. Where doubles are added they are held as
\* they are, <<n, k>> for n / 2^k.
Inf == <<"inf">>

\* The digits of a number without its leading zeros.
RECURSIVE StripZeros(_)
StripZeros(t) ==
    IF t # <<>> /\ DigitVal(Head(t)) = 0 THEN StripZeros(Tail(t)) ELSE t

RECURSIVE Pow2(_)
Pow2(k) == IF k = 0 THEN 1 ELSE 2 * Pow2(k - 1)

\* The exponent of the highest bit of n >= 1.
RECURSIVE FloorLog2(_)
FloorLog2(n) == IF n < 2 THEN 0 ELSE 1 + FloorLog2(n \div 2)

\* The doublings that take num >= 1 to den at least.
RECURSIVE DoublingsTo(_, _)
DoublingsTo(num, den) == IF num >= den THEN 0 ELSE 1 + DoublingsTo(2 * num, den)

\* num / den rounded to the nearest integer, a tie to the even one.
RoundHalfEven(num, den) ==
    LET q == num \div den
        r == num % den
    IN  IF 2 * r > den \/ (2 * r = den /\ q % 2 = 1) THEN q + 1 ELSE q

\* The double nearest to num / den >= 0, a tie to the even mantissa: 53
\* bits from the highest bit of the number down, none below 2^-1074; inf
\* when the rounding reaches 2^1024.
RoundToDouble(num, den) ==
    IF num = 0 THEN <<0, 0>>
    ELSE LET e == IF num >= den THEN FloorLog2(num \div den) ELSE 0 - DoublingsTo(num, den)
             q == IF e - 52 < 0 - 1074 THEN 0 - 1074 ELSE e - 52
         IN  IF q >= 0
             THEN IF q > 971 \/ (q = 971 /\ RoundHalfEven(num, den * Pow2(q)) = Pow2(53))
                  THEN Inf
                  ELSE <<RoundHalfEven(num, den * Pow2(q)) * Pow2(q), 0>>
             ELSE <<RoundHalfEven(num * Pow2(0 - q), den), 0 - q>>

\* The double an amount stands for.
DoubleOf(a) == IF a = Inf THEN Inf ELSE RoundToDouble(100 * a[1] + a[2], 100)

\* A double as an amount.
Hundredths(x) ==
    IF x = Inf THEN Inf
    ELSE LET h == RoundHalfEven(100 * x[1], Pow2(x[2]))
         IN  <<h \div 100, h % 100>>

\* x + y of two doubles: the double nearest to the sum of the two numbers.
DoubleAdd(x, y) ==
    IF x = Inf \/ y = Inf THEN Inf
    ELSE LET k == IF x[2] > y[2] THEN x[2] ELSE y[2]
         IN  RoundToDouble(x[1] * Pow2(k - x[2]) + y[1] * Pow2(k - y[2]), Pow2(k))

\* float() of digits with an optional .d or .dd. A number of at most nine
\* integer digits is below 2^46 and is the name of its double; a longer one
\* is rounded to 53 bits, and is inf from 2^1024 - 2^970 on.
ParseFloat(t) ==
    LET dots == {k \in 1..Len(t) : t[k] = "."}
        whole == StripZeros(IF dots = {} THEN t ELSE SubSeq(t, 1, MinOf(dots) - 1))
        frac == IF dots = {} THEN <<>> ELSE SubSeq(t, MinOf(dots) + 1, Len(t))
        hundredths == IF Len(frac) = 1 THEN 10 * DigitsValue(frac) ELSE DigitsValue(frac)
    IN  IF Len(whole) <= 9 THEN <<DigitsValue(whole), hundredths>>
        ELSE Hundredths(DoubleOf(<<DigitsValue(whole), hundredths>>))

\* float(match.group(1).replace(',', ''))
GroupAmount(s, m) == ParseFloat(StripCommas(GroupText(s, Val(m))))

\* The pattern that decides the amount of a body: 1, 2, 3, or 0 when none
\* matches.
RuleUsed(s) ==
    IF match_rwf(s) # None THEN 1
    ELSE IF match_phrases(s) # None THEN 2
    ELSE IF match_general_number(s) # None THEN 3
    ELSE 0

\* An extractor that tries the keyword anchors before the currency code.
extract_amount_phrases_first(b) ==
    IF b = None \/ Val(b) = <<>> THEN None
    ELSE LET s == Val(b)
             m1 == match_rwf(s)
             m2 == match_phrases(s)
             m3 == match_general_number(s)
         IN  IF m2 # None THEN Some(GroupAmount(s, m2))
             ELSE IF m1 # None THEN Some(GroupAmount(s, m1))
             ELSE IF m3 # None THEN Some(GroupAmount(s, m3))
             ELSE None

\* The amount of an optional body, None or Some(<<units, hundredths>>).
extract_amount_from_body(b) ==
    IF b = None \/ Val(b) = <<>> THEN None
    ELSE LET s == Val(b)
             m1 == match_rwf(s)
             m2 == match_phrases(s)
             m3 == match_general_number(s)
         IN  IF m1 # None THEN Some(GroupAmount(s, m1))
             ELSE IF m2 # None THEN Some(GroupAmount(s, m2))
             ELSE IF m3 # None THEN Some(GroupAmount(s, m3))
             ELSE None

-----------------------------------------------------------------------------
(* The extractor on its own: a body is put together from pieces of text, then
   extract_amount_from_body runs on it. *)

\* The most pieces a body is put together from.
MaxPieces == 4

RWF27000 == <<"2", "7", ",", "0", "0", "0", " ", "R", "W", "F">>

\* The pieces: digits, separators, other text, the currency code and an
\* anchor in a case the patterns do not spell, and the text "27,000 RWF".
Pieces ==
    { <<"1">>, <<"5">>, <<",">>, <<".">>, <<" ">>, <<"x">>,
      <<"r", "w", "f">>, <<"I", "s", ":">>, RWF27000 }

IdleStore == <<>>

IdleLast == [op |-> "none"]

ExtractInit ==
    /\ body \in {None, Some(<<>>)}
    /\ extracted = FALSE
    /\ amount = None
    /\ pieces = 0
    /\ store = IdleStore
    /\ last = IdleLast

\* The caller has one more piece of text in the body.
AppendPiece ==
    /\ body # None
    /\ ~extracted
    /\ pieces < MaxPieces
    /\ \E p \in Pieces : body' = Some(Val(body) \o p)
    /\ pieces' = pieces + 1
    /\ UNCHANGED <<extracted, amount, store, last>>

\* extract_amount_from_body(body)
Extract ==
    /\ ~extracted
    /\ amount' = extract_amount_from_body(body)
    /\ extracted' = TRUE
    /\ UNCHANGED <<body, pieces, store, last>>

ExtractNext == AppendPiece \/ Extract

SpecExtract == ExtractInit /\ [][ExtractNext]_vars

-----------------------------------------------------------------------------
(* The extractor's rules, stated on the text itself *)

\* Whether the text t is digits (lo to hi of them), then groups of a comma
\* and three digits, then optionally a point and one or two digits.
NumberShape(t, lo, hi) ==
    \E n \in lo..hi : \E d \in 0..2 :
        LET fracLen == IF d = 0 THEN 0 ELSE d + 1
            mid == Len(t) - n - fracLen
        IN  /\ mid >= 0
            /\ mid % 4 = 0
            /\ \A k \in 1..n : IsDigit(t[k])
            /\ \A k \in 1..mid :
                  IF k % 4 = 1 THEN t[n + k] = "," ELSE IsDigit(t[n + k])
            /\ d > 0 => t[n + mid + 1] = "."
            /\ \A k \in 1..d : IsDigit(t[n + mid + 1 + k])

\* The same letters, whatever their case.
SameFolded(t, u) == Len(t) = Len(u) /\ \A k \in 1..Len(t) : Lower(t[k]) = Lower(u[k])

AllSpaces(t) == \A k \in 1..Len(t) : IsSpace(t[k])

\* s[i..j] is a currency-tagged number: optional whitespace and the currency
\* code follow it.
CurrencyTagged(s, i, j) ==
    /\ NumberShape(Slice(s, i, j), 1, 3)
    /\ \E e \in j..Len(s) :
          /\ AllSpaces(Slice(s, j + 1, e))
          /\ SameFolded(Slice(s, e + 1, e + 3), <<"R", "W", "F">>)

\* s[i..j] is a keyword-anchored number: an anchor and optional whitespace
\* come right before it.
KeywordAnchored(s, i, j) ==
    /\ NumberShape(Slice(s, i, j), 1, 3)
    /\ \E k \in 1..Len(Keywords) : \E a \in 1..i :
          /\ a + Len(Keywords[k]) <= i
          /\ SameFolded(Slice(s, a, a + Len(Keywords[k]) - 1), Keywords[k])
          /\ AllSpaces(Slice(s, a + Len(Keywords[k]), i - 1))

\* s[i..j] is a bare number with at least two integer digits.
BareNumber(s, i, j) == NumberShape(Slice(s, i, j), 2, Len(s))

Spans(s) == {ij \in (1..Len(s)) \X (1..Len(s)) : ij[1] <= ij[2]}

CurrencyTaggedSpans(s) == {ij \in Spans(s) : CurrencyTagged(s, ij[1], ij[2])}

KeywordAnchoredSpans(s) == {ij \in Spans(s) : KeywordAnchored(s, ij[1], ij[2])}

BareNumberSpans(s) == {ij \in Spans(s) : BareNumber(s, ij[1], ij[2])}

\* The first match among spans: the leftmost, and there the longest.
FirstSpan(T) ==
    CHOOSE ij \in T : \A kl \in T : ij[1] < kl[1] \/ (ij[1] = kl[1] /\ ij[2] >= kl[2])

SpanAmount(s, ij) == ParseFloat(StripCommas(Slice(s, ij[1], ij[2])))

\* What the priority chain gives for a nonempty text.
ChainAmount(s) ==
    IF CurrencyTaggedSpans(s) # {} THEN Some(SpanAmount(s, FirstSpan(CurrencyTaggedSpans(s))))
    ELSE IF KeywordAnchoredSpans(s) # {}
        THEN Some(SpanAmount(s, FirstSpan(KeywordAnchoredSpans(s))))
    ELSE IF BareNumberSpans(s) # {} THEN Some(SpanAmount(s, FirstSpan(BareNumberSpans(s))))
    ELSE None

\* C7: the amount of a body is the first currency-tagged number when the body
\* has one; otherwise the first keyword-anchored number when it has one;
\* otherwise the first bare number of two or more integer digits; otherwise
\* none. A body with both a currency-tagged and a keyword-anchored number
\* gives the currency-tagged one wherever the two stand.
C7_PriorityChain ==
    (extracted /\ body # None /\ Val(body) # <<>>) => amount = ChainAmount(Val(body))

\* C7 witness: the extractor ran on a body where a keyword-anchored number
\* stands before a currency-tagged number of another value, and returned the
\* currency-tagged value.
C7_Witness ==
    /\ extracted
    /\ body # None
    /\ CurrencyTaggedSpans(Val(body)) # {}
    /\ KeywordAnchoredSpans(Val(body)) # {}
    /\ LET s == Val(body)
           c == FirstSpan(CurrencyTaggedSpans(s))
           k == FirstSpan(KeywordAnchoredSpans(s))
       IN  /\ k[2] < c[1]
           /\ SpanAmount(s, k) # SpanAmount(s, c)
           /\ amount = Some(SpanAmount(s, c))

\* The positions where the text "27,000 RWF" stands in s.
Occurrences27000(s) ==
    {p \in 1..Len(s) : Slice(s, p, p + Len(RWF27000) - 1) = RWF27000}

\* C8 as claimed: every body containing "27,000 RWF" gives 27000.0.
C8_Original ==
    (extracted /\ body # None /\ Occurrences27000(Val(body)) # {})
        => amount = Some(<<27000, 0>>)

\* C8 amended: a body containing "27,000 RWF" gives 27000.0 when no
\* currency-tagged number starts before that occurrence (neither an earlier
\* one nor a longer number that ends in it, as in "127,000 RWF").
C8_FirstTagged27000 ==
    (extracted /\ body # None) =>
        \A p \in Occurrences27000(Val(body)) :
            (\A ij \in CurrencyTaggedSpans(Val(body)) : ij[1] >= p)
                => amount = Some(<<27000, 0>>)

\* C8 witness: the extractor returned 27000.0 for a body where text comes
\* before "27,000 RWF" and another currency-tagged number comes after it.
C8_Witness ==
    /\ extracted
    /\ body # None
    /\ amount = Some(<<27000, 0>>)
    /\ \E p \in Occurrences27000(Val(body)) :
          /\ p > 1
          /\ \A ij \in CurrencyTaggedSpans(Val(body)) : ij[1] >= p
          /\ \E ij \in CurrencyTaggedSpans(Val(body)) : ij[1] >= p + Len(RWF27000)

-----------------------------------------------------------------------------
(* backend/parser.py: parse_sms_xml_content *)

\* The attributes read from an sms element, in the order the record lists them.
AttrNames ==
    <<"protocol", "address", "date", "type", "subject", "body", "toa", "sc_toa",
      "service_center", "read", "status", "locked", "date_sent", "sub_id",
      "readable_date", "contact_name">>

AttrSet == {AttrNames[k] : k \in 1..Len(AttrNames)}

\* A document is the sequence of things between the root's tags. Each is an
\* element [tag, attrs], attrs a function from the attribute names it carries
\* to their texts, or markup that is not well-formed.
Malformed == [tag |-> "<", attrs |-> <<>>]

IsWellFormed(d) == \A k \in 1..Len(d) : d[k] # Malformed

\* Element.get(name): the attribute's text, None when the element has none.
Get(el, name) == IF name \in DOMAIN el.attrs THEN Some(el.attrs[name]) ELSE None

\* root.findall('sms'): the root's children with that tag, in document order.
RECURSIVE FindAll(_, _)
FindAll(d, tag) ==
    IF d = <<>> THEN <<>>
    ELSE (IF Head(d).tag = tag THEN <<Head(d)>> ELSE <<>>) \o FindAll(Tail(d), tag)

\* A decoder that keeps a date only when it is a number.
SmsRecordDateChecked(el) ==
    [k \in AttrSet \cup {"amount"} |->
        IF k = "amount" THEN extract_amount_from_body(Get(el, "body"))
        ELSE IF k = "date" /\ Get(el, k) # None /\ ~(\A i \in 1..Len(el.attrs[k]) : IsDigit(el.attrs[k][i]))
            THEN None
        ELSE Get(el, k)]

\* The dictionary built for one sms element.
SmsRecord(el) ==
    [k \in AttrSet \cup {"amount"} |->
        IF k = "amount" THEN extract_amount_from_body(Get(el, "body")) ELSE Get(el, k)]

\* A parser that keeps the elements decoded before the markup broke.
parse_keep_prefix(d) ==
    LET good == {n \in 0..Len(d) : IsWellFormed(SubSeq(d, 1, n))}
        sms == FindAll(SubSeq(d, 1, MaxOf(good)), "sms")
    IN  [k \in 1..Len(sms) |-> SmsRecord(sms[k])]

\* ET.fromstring raises ParseError on a document that is not well-formed, and
\* the function returns []; otherwise one record per sms element.
parse_sms_xml_content(d) ==
    IF ~IsWellFormed(d) THEN <<>>
    ELSE LET sms == FindAll(d, "sms")
         IN  [k \in 1..Len(sms) |-> SmsRecord(sms[k])]

-----------------------------------------------------------------------------
(* Sample texts and elements *)

T_2024_01_01_000 == <<"1", "7", "0", "4", "0", "6", "7", "2", "0", "0", "0", "0", "0">>

T_2024_01_01_end == <<"1", "7", "0", "4", "1", "5", "3", "5", "9", "9", "9", "9", "9">>

T_2024_02_01_000 == <<"1", "7", "0", "6", "7", "4", "5", "6", "0", "0", "0", "0", "0">>

T_abc == <<"a", "b", "c">>

T_1 == <<"1">>

T_2 == <<"2">>

T_3 == <<"3">>

Body_1500RWF == <<"1", ",", "5", "0", "0", " ", "R", "W", "F">>

Body_is20 == <<"i", "s", ":", "2", "0">>

Body_hello == <<"h", "i">>

Body_tx == <<"T", "X", " ", "7", "7", "8", "8", "9", "9">>

\* An element carrying every attribute.
SmsFull ==
    [tag |-> "sms",
     attrs |-> [k \in AttrSet |->
                  CASE k = "date" -> T_2024_01_01_000
                    [] k = "date_sent" -> T_2024_01_01_end
                    [] k = "type" -> T_1
                    [] k = "body" -> Body_1500RWF
                    [] k = "contact_name" -> T_abc
                    [] OTHER -> T_1]]

\* An element carrying three of them.
SmsSent ==
    [tag |-> "sms",
     attrs |-> [k \in {"date", "type", "body"} |->
                  CASE k = "date" -> T_2024_02_01_000
                    [] k = "type" -> T_2
                    [] OTHER -> Body_is20]]

\* An element with a date that is no number, no type, and an attribute the
\* parser does not read.
SmsOdd ==
    [tag |-> "sms",
     attrs |-> [k \in {"date", "body", "foo"} |->
                  CASE k = "date" -> T_abc
                    [] k = "body" -> Body_hello
                    [] OTHER -> T_abc]]

\* An element of an unknown type code whose body has only a bare number.
SmsOther ==
    [tag |-> "sms",
     attrs |-> [k \in {"date", "type", "body"} |->
                  CASE k = "date" -> T_2024_01_01_end
                    [] k = "type" -> T_3
                    [] OTHER -> Body_tx]]

\* A child of the root that is not an sms element.
Mms == [tag |-> "mms", attrs |-> [k \in {"date"} |-> T_2024_01_01_000]]

-----------------------------------------------------------------------------
(* Numbers, dates and order *)

\* The printable ASCII characters in code order (the double quote, the
\* backslash and the backtick, which no text of the model holds, by name).
Ascii ==
    <<" ", "!", "quote", "#", "$", "%", "&", "'", "(", ")", "*", "+", ",", "-", ".", "/">>
    \o <<"0", "1", "2", "3", "4", "5", "6", "7", "8", "9", ":", ";", "<", "=", ">", "?">>
    \o <<"@", "A", "B", "C", "D", "E", "F", "G", "H", "I", "J", "K", "L", "M", "N", "O">>
    \o <<"P", "Q", "R", "S", "T", "U", "V", "W", "X", "Y", "Z", "[", "backslash", "]", "^", "_">>
    \o <<"backtick", "a", "b", "c", "d", "e", "f", "g", "h", "i", "j", "k", "l", "m", "n", "o">>
    \o <<"p", "q", "r", "s", "t", "u", "v", "w", "x", "y", "z", "{", "|", "}", "~">>

\* The control characters of the model's texts, with their code points.
Controls ==
    [c \in {"\t", "\n", "U+000B", "\f", "\r", "U+001C", "U+001D", "U+001E", "U+001F"} |->
        CASE c = "\t" -> 9 [] c = "\n" -> 10 [] c = "U+000B" -> 11 [] c = "\f" -> 12
          [] c = "\r" -> 13 [] c = "U+001C" -> 28 [] c = "U+001D" -> 29
          [] c = "U+001E" -> 30 [] c = "U+001F" -> 31]

\* The code point of a character: ord(c).
Ord(c) ==
    IF c \in DOMAIN Controls THEN Controls[c]
    ELSE IF IsNonAscii(c) THEN NonAsciiCode[RankOf(c)]
    ELSE 31 + (CHOOSE k \in 1..Len(Ascii) : Ascii[k] = c)

\* Text order by code points (SQLite's BINARY collation, Python's str order).
RECURSIVE TextLess(_, _)
TextLess(a, b) ==
    IF b = <<>> THEN FALSE
    ELSE IF a = <<>> THEN TRUE
    ELSE IF Head(a) = Head(b) THEN TextLess(Tail(a), Tail(b))
    ELSE Ord(Head(a)) < Ord(Head(b))

\* Milliseconds in a day.
MsPerDay == 86400000

\* The digits t read after a number held as <<day, ms>>.
RECURSIVE DayMsFrom(_, _, _)
DayMsFrom(t, day, ms) ==
    IF t = <<>> THEN <<day, ms>>
    ELSE DayMsFrom(Tail(t),
                   10 * day + ((10 * ms + DigitVal(Head(t))) \div MsPerDay),
                   (10 * ms + DigitVal(Head(t))) % MsPerDay)

\* int() of a run of digits as <<day, ms>> = divmod(n, MsPerDay).
DigitsDayMs(t) == DayMsFrom(t, 0, 0)

\* The text without the whitespace int() drops at its ends.
Strip(t) ==
    LET inked == {k \in 1..Len(t) : ~IsIntSpace(t[k])}
    IN  IF inked = {} THEN <<>> ELSE SubSeq(t, MinOf(inked), MaxOf(inked))

\* Whether a text is the digits of an int literal: digits, with single
\* underscores between digits.
IsIntBody(b) ==
    /\ b # <<>>
    /\ \A k \in 1..Len(b) :
          \/ IsDigit(b[k])
          \/ b[k] = "_" /\ k > 1 /\ k < Len(b) /\ IsDigit(b[k - 1]) /\ IsDigit(b[k + 1])

\* The negative of a number held as <<day, ms>> with 0 <= ms < MsPerDay.
NegateDayMs(p) == IF p[2] = 0 THEN <<0 - p[1], 0>> ELSE <<0 - p[1] - 1, MsPerDay - p[2]>>

\* The most digits int() reads from a text: sys.get_int_max_str_digits(),
\* which the program leaves at its default. Leading zeros count, the sign
\* and the underscores do not.
IntMaxStrDigits == 4300

\* int(text), None standing for ValueError: whitespace at the ends is dropped,
\* a sign may lead, underscores may separate digits, and a literal of more
\* than IntMaxStrDigits digits is refused.
IntOrNone(t) ==
    LET s == Strip(t)
        signed == s # <<>> /\ s[1] \in {"+", "-"}
        b == IF signed THEN Tail(s) ELSE s
        digits == SelectSeq(b, IsDigit)
        n == DigitsDayMs(digits)
    IN  IF ~IsIntBody(b) \/ Len(digits) > IntMaxStrDigits THEN None
        ELSE IF signed /\ s[1] = "-" THEN Some(NegateDayMs(n))
        ELSE Some(n)

\* Order of pairs <<high, low>>: timestamps <<day, ms>>, amounts <<units, hundredths>>.
PairLE(a, b) == a[1] < b[1] \/ (a[1] = b[1] /\ a[2] <= b[2])

\* Order of amounts; inf is the greatest.
AmountLE(a, b) == IF b = Inf THEN TRUE ELSE IF a = Inf THEN FALSE ELSE PairLE(a, b)

\* The whole units below which, and the number of terms up to which, a sum
\* of doubles is less than 0.005 from the sum of the numbers they stand for:
\* the doubles are then 2^-22 apart at most, and each term and each addition
\* is off by half of that at most.
MaxExactUnits == 1000000000

MaxExactTerms == 1000

\* The sum of the numbers of amounts none of which is inf.
RECURSIVE ExactSum(_)
ExactSum(amounts) ==
    IF amounts = <<>> THEN <<0, 0>>
    ELSE LET s == ExactSum(Tail(amounts))
             h == Head(amounts)[2] + s[2]
         IN  <<Head(amounts)[1] + s[1] + (h \div 100), h % 100>>

\* 0.0 + a1 + a2 + ..., each + a double addition, from the left.
RECURSIVE DoubleSum(_, _)
DoubleSum(x, amounts) ==
    IF amounts = <<>> THEN x
    ELSE DoubleSum(DoubleAdd(x, DoubleOf(Head(amounts))), Tail(amounts))

\* The amounts added as doubles in their order, starting from 0.0: SUM of
\* SQLite over the rows in rowid order, and Python's + over the rows of a
\* query. A short sum of small amounts is the sum of the numbers.
AddAmounts(amounts) ==
    IF /\ Len(amounts) <= MaxExactTerms
       /\ \A k \in 1..Len(amounts) : amounts[k] # Inf
       /\ \A k \in 1..Len(amounts) : amounts[k][1] < MaxExactUnits
       /\ ExactSum(amounts)[1] < MaxExactUnits
    THEN ExactSum(amounts)
    ELSE Hundredths(DoubleSum(<<0, 0>>, amounts))

\* a + b of two amounts, as doubles.
AmountAdd(a, b) ==
    IF a # Inf /\ b # Inf /\ a[1] < MaxExactUnits /\ b[1] < MaxExactUnits
    THEN ExactSum(<<a, b>>)
    ELSE Hundredths(DoubleAdd(DoubleOf(a), DoubleOf(b)))

\* Days from 1970-01-01 to the civil date y-m-d.
DaysFromCivil(y, m, d) ==
    LET yy == IF m <= 2 THEN y - 1 ELSE y
        era == yy \div 400
        yoe == yy - era * 400
        mp == IF m > 2 THEN m - 3 ELSE m + 9
        doy == ((153 * mp + 2) \div 5) + d - 1
        doe == yoe * 365 + (yoe \div 4) - (yoe \div 100) + doy
    IN  era * 146097 + doe - 719468

\* The civil <<year, month>> of a day counted from 1970-01-01.
YearMonthOfDay(days) ==
    LET z == days + 719468
        era == z \div 146097
        doe == z - era * 146097
        yoe == (doe - (doe \div 1460) + (doe \div 36524) - (doe \div 146096)) \div 365
        doy == doe - (365 * yoe + (yoe \div 4) - (yoe \div 100))
        mp == (5 * doy + 2) \div 153
        m == IF mp < 10 THEN mp + 3 ELSE mp - 9
    IN  <<yoe + era * 400 + (IF m <= 2 THEN 1 ELSE 0), m>>

IsLeap(y) == (y % 4 = 0 /\ y % 100 # 0) \/ y % 400 = 0

DaysInMonth(y, m) ==
    IF m = 2 THEN (IF IsLeap(y) THEN 29 ELSE 28)
    ELSE IF m \in {4, 6, 9, 11} THEN 30 ELSE 31

\* The positions of "-" in a text.
Dashes(t) == {k \in 1..Len(t) : t[k] = "-"}

AllDigits(t) == t # <<>> /\ \A k \in 1..Len(t) : IsDigit(t[k])

AllAsciiDigits(t) == t # <<>> /\ \A k \in 1..Len(t) : IsAsciiDigit(t[k])

\* The text of a %d field as digits: one or two ASCII digits, a space and
\* an ASCII digit, or 1 or 2 and any digit ([1-2]\d); <<>> when it is none
\* of these.
DayDigits(ds) ==
    IF AllAsciiDigits(ds) /\ Len(ds) <= 2 THEN ds
    ELSE IF Len(ds) = 2 /\ ds[1] \in {"1", "2"} /\ IsDigit(ds[2]) THEN ds
    ELSE IF Len(ds) = 2 /\ ds[1] = " " /\ IsAsciiDigit(ds[2]) THEN <<ds[2]>>
    ELSE <<>>

\* datetime.strptime(text, '%Y-%m-%d'): Some(<<y, m, d>>), or None for the
\* ValueError. %Y is four digits of any script (\d\d\d\d), %m one or two
\* ASCII digits, %d as DayDigits has it, all in range.
Strptime(t) ==
    IF Cardinality(Dashes(t)) # 2 THEN None
    ELSE LET i == MinOf(Dashes(t))
             j == MaxOf(Dashes(t))
             ys == SubSeq(t, 1, i - 1)
             ms == SubSeq(t, i + 1, j - 1)
             ds == SubSeq(t, j + 1, Len(t))
         IN  IF ~(AllDigits(ys) /\ AllAsciiDigits(ms) /\ DayDigits(ds) # <<>>) THEN None
             ELSE IF Len(ys) # 4 \/ Len(ms) > 2 THEN None
             ELSE LET y == DigitsValue(ys)
                      m == DigitsValue(ms)
                      d == DigitsValue(DayDigits(ds))
                  IN  IF y >= 1 /\ m \in 1..12 /\ d >= 1 /\ d <= DaysInMonth(y, m)
                      THEN Some(<<y, m, d>>) ELSE None

\* int(dt.timestamp() * 1000) of local midnight; local time is UTC.
StartMs(ymd) == <<DaysFromCivil(ymd[1], ymd[2], ymd[3]), 0>>

\* int((dt + timedelta(days=1)).timestamp() * 1000 - 1)
EndMs(ymd) == <<DaysFromCivil(ymd[1], ymd[2], ymd[3]), MsPerDay - 1>>

\* Two decimal digits of a number under 100.
TwoDigits(n) == <<Digits[(n \div 10) + 1], Digits[(n % 10) + 1]>>

\* The decimal digits of a natural number, without leading zeros.
RECURSIVE Decimal(_)
Decimal(n) == IF n < 10 THEN <<Digits[n + 1]>> ELSE Decimal(n \div 10) \o <<Digits[(n % 10) + 1]>>

\* The first and the last day fromtimestamp accepts, counted from 1970-01-01:
\* 0001-01-02 and 9999-12-31.
MinDay == -719161

MaxDay == 2932896

\* strftime('%Y-%m') of a year from 1 to 9999; the C library does not pad
\* the year.
MonthLabel(ym) == Decimal(ym[1]) \o <<"-">> \o TwoDigits(ym[2])

-----------------------------------------------------------------------------
(* backend/models/transactions.py and backend/parser.py: the batch insert *)

\* The columns of the transactions table.
Columns == AttrSet \cup {"id", "user_id", "amount"}

\* The record as the loop leaves it before Transaction(**record): date and
\* date_sent through int() (None when that fails), user_id set to the caller's.
PreparedRecord(rec, user_id) ==
    [k \in DOMAIN rec \cup {"user_id"} |->
        IF k = "user_id" THEN user_id
        ELSE IF k \in {"date", "date_sent"} /\ rec[k] # None THEN IntOrNone(Val(rec[k]))
        ELSE rec[k]]

\* The names every class of Python 3.11 has an attribute of: those of object
\* and of type.
ObjectAttributes ==
    {"__annotations__", "__base__", "__bases__", "__basicsize__", "__call__", "__class__",
     "__delattr__", "__dict__", "__dictoffset__", "__dir__", "__doc__", "__eq__",
     "__flags__", "__format__", "__ge__", "__getattribute__", "__getstate__", "__gt__",
     "__hash__", "__init__", "__init_subclass__", "__instancecheck__", "__itemsize__", "__le__",
     "__lt__", "__module__", "__mro__", "__name__", "__ne__", "__new__",
     "__or__", "__prepare__", "__qualname__", "__reduce__", "__reduce_ex__", "__repr__",
     "__ror__", "__setattr__", "__sizeof__", "__str__", "__subclasscheck__", "__subclasses__",
     "__subclasshook__", "__text_signature__", "__weakref__", "__weakrefoffset__", "mro"}

\* The names the class Transaction has an attribute of beside its columns:
\* those of its body, those declarative_base() and the mapping give it, and
\* those of every class.
ClassAttributes ==
    {"__tablename__", "metadata", "registry", "__abstract__", "__table__", "__mapper__",
     "_sa_class_manager", "_sa_registry"} \cup ObjectAttributes

\* hasattr(Transaction, key)
HasAttr(key) == key \in Columns \/ key \in ClassAttributes

\* The names setattr refuses on an instance whatever text or None is given:
\* __class__ and __dict__ with a TypeError, __weakref__ with an
\* AttributeError.
Unsettable == {"__class__", "__dict__", "__weakref__"}

\* Transaction(**record): the constructor raises TypeError for a key the
\* class has no attribute of and sets every other key with setattr.
CanConstruct(rec) == \A key \in DOMAIN rec : HasAttr(key) /\ key \notin Unsettable

\* A loop that counts a record before it is constructed.
ConstructedAll(parsed_data, user_id) ==
    [k \in 1..Len(parsed_data) |->
        LET rec == PreparedRecord(parsed_data[k], user_id)
        IN  [c \in (DOMAIN rec) \cap Columns |-> rec[c]]]

\* The records of the batch that were constructed and added to the session,
\* in order.
RECURSIVE Constructed(_, _)
Constructed(parsed_data, user_id) ==
    IF parsed_data = <<>> THEN <<>>
    ELSE LET rec == PreparedRecord(Head(parsed_data), user_id)
         IN  (IF CanConstruct(rec) THEN <<rec>> ELSE <<>>)
                \o Constructed(Tail(parsed_data), user_id)

\* Whether 0 <= n < 2^k.
RECURSIVE Below2To(_, _)
Below2To(n, k) ==
    IF n < 0 THEN FALSE
    ELSE IF n = 0 THEN TRUE
    ELSE IF k = 0 THEN FALSE
    ELSE Below2To(n \div 2, k - 1)

\* Whether an integer is one SQLite can hold: -2^63 .. 2^63 - 1.
FitsInt64(n) == IF n >= 0 THEN Below2To(n, 63) ELSE Below2To(0 - (n + 1), 63)

\* Whether a number of milliseconds held as <<day, ms>>, day >= 0, is below
\* 2^63 + more, which is 25975808 + more ms into day 106751991167.
DayMsBelow2To63(p, more) ==
    LET millions == p[1] \div 1000000
        units == p[1] % 1000000
    IN  \/ millions < 106751
        \/ millions = 106751 /\ units < 991167
        \/ millions = 106751 /\ units = 991167 /\ p[2] < 25975808 + more

\* Whether a timestamp is one SQLite can hold: -2^63 .. 2^63 - 1.
DayMsFitsInt64(p) ==
    IF p[1] >= 0 THEN DayMsBelow2To63(p, 0) ELSE DayMsBelow2To63(NegateDayMs(p), 1)

\* Whether the values of a row can be bound to its INSERT: an integer
\* outside 64 bits raises OverflowError there.
Binds(row) ==
    /\ FitsInt64(row["id"])
    /\ FitsInt64(row["user_id"])
    /\ \A c \in {"date", "date_sent"} : row[c] # None => DayMsFitsInt64(Val(row[c]))

\* The rowids SQLite can give a row inserted without one: one more than the
\* greatest of the table, and when that is the last rowid, 2^63 - 1, any
\* unused one of 1 .. 2^62, which it picks at random.
NextRowids(table) ==
    IF table = <<>> THEN {1}
    ELSE LET used == {table[k]["id"] : k \in 1..Len(table)}
         IN  IF FitsInt64(MaxOf(used) + 1) THEN {MaxOf(used) + 1}
             ELSE {r \in 1..Pow2(62) : r \notin used}

\* The ids the row of a constructed record can have: its own when it has
\* one, else a rowid of SQLite's.
RowIds(table, rec) ==
    IF "id" \in DOMAIN rec /\ rec["id"] # None THEN {Val(rec["id"])} ELSE NextRowids(table)

\* The row a constructed record becomes under an id: the columns it names,
\* the other columns NULL.
Row(id, rec) ==
    [c \in Columns |-> IF c = "id" THEN id ELSE IF c \in DOMAIN rec THEN rec[c] ELSE None]

\* The table with one more row; a table is read in rowid order.
InsertRow(table, row) ==
    SelectSeq(table, LAMBDA r : r["id"] < row["id"]) \o <<row>>
        \o SelectSeq(table, LAMBDA r : r["id"] > row["id"])

\* The flush of the pending records, one INSERT after the other in the order
\* they were added: the tables it can give, which are none when an INSERT
\* raises, the OverflowError of a value that cannot be bound or the
\* IntegrityError of an id the table already has.
RECURSIVE Flush(_, _)
Flush(table, pending) ==
    IF pending = <<>> THEN {table}
    ELSE UNION {LET row == Row(id, Head(pending))
                IN  IF ~Binds(row) \/ \E k \in 1..Len(table) : table[k]["id"] = id
                    THEN {}
                    ELSE Flush(InsertRow(table, row), Tail(pending)) :
                id \in RowIds(table, Head(pending))}

\* Whether db_session.commit() returns: no INSERT of the flush raises and
\* the database accepts the commit.
Commits(table, pending, commit_ok) == commit_ok /\ Flush(table, pending) # {}

\* A session whose failed commit leaves the rows of the flush in the table:
\* the tables it can leave.
CommitNoRollback(table, pending, commit_ok) ==
    IF Flush(table, pending) # {} THEN Flush(table, pending) ELSE {table}

\* db_session.commit(): the pending rows join the table, or none does; the
\* tables it can leave.
Commit(table, pending, commit_ok) ==
    IF Commits(table, pending, commit_ok) THEN Flush(table, pending) ELSE {table}

\* insert_transactions_from_parsed_data: what it returns, the table after it
\* and whether it rolled the session back, for each table the commit can
\* leave.
insert_transactions_from_parsed_data(table, user_id, parsed_data, commit_ok) ==
    IF parsed_data = <<>>
    THEN {[returned |-> 0, table |-> table, rolled_back |-> FALSE]}
    ELSE LET pending == Constructed(parsed_data, user_id)
         IN  {[returned |-> IF Commits(table, pending, commit_ok) THEN Len(pending) ELSE 0,
               table |-> after,
               rolled_back |-> ~Commits(table, pending, commit_ok)] :
              after \in Commit(table, pending, commit_ok)}

-----------------------------------------------------------------------------
(* backend/app.py: upload_xml *)

EndsWith(t, suffix) ==
    Len(t) >= Len(suffix) /\ SubSeq(t, Len(t) - Len(suffix) + 1, Len(t)) = suffix

DotXml == <<".", "x", "m", "l">>

\* flash(message, category); count is the number the message shows.
Flash(message, count, category) ==
    [message |-> message, count |-> count, category |-> category]

\* upload_xml: the message flashed and the table after the request, for
\* each outcome the insert can have. file is None when the request has no
\* xml_file part; its content is None when the bytes are not UTF-8, and
\* decode() raises out of the handler.
upload_xml(table, user_id, file, commit_ok) ==
    IF file = None THEN {[flash |-> Flash("No file part", 0, "error"), table |-> table]}
    ELSE IF Val(file).filename = <<>>
        THEN {[flash |-> Flash("No selected file", 0, "error"), table |-> table]}
    ELSE IF ~EndsWith(Val(file).filename, DotXml)
        THEN {[flash |-> Flash("Invalid file type", 0, "error"), table |-> table]}
    ELSE IF Val(file).content = None
        THEN {[flash |-> Flash("UnicodeDecodeError", 0, "raised"), table |-> table]}
    ELSE LET parsed_data == parse_sms_xml_content(Val(Val(file).content))
         IN  IF parsed_data # <<>>
             THEN {[flash |-> Flash("Successfully uploaded", ins.returned, "success"),
                    table |-> ins.table] :
                   ins \in insert_transactions_from_parsed_data(
                               table, user_id, parsed_data, commit_ok)}
             ELSE {[flash |-> Flash("Failed to parse XML", 0, "error"), table |-> table]}

-----------------------------------------------------------------------------
(* backend/dashboard.py *)

\* A Python string that is not None and not empty.
Truthy(o) == o # None /\ Val(o) # <<>>

\* The filters of get_user_transactions, all absent.
NoFilters ==
    [transaction_type |-> None, start_date |-> None, end_date |-> None,
     min_amount |-> None, max_amount |-> None, limit |-> None]

\* A query that forgets the owner.
OwnedByAnyone(row, user_id) == TRUE

\* Transaction.user_id == user_id
OwnedBy(row, user_id) == row["user_id"] = user_id

\* The WHERE clause the filters add; a comparison with NULL is not true.
RowPasses(row, f) ==
    /\ Truthy(f.transaction_type) => row["type"] = f.transaction_type
    /\ Truthy(f.start_date) =>
          row["date"] # None /\ PairLE(StartMs(Val(Strptime(Val(f.start_date)))), Val(row["date"]))
    /\ Truthy(f.end_date) =>
          row["date"] # None /\ PairLE(Val(row["date"]), EndMs(Val(Strptime(Val(f.end_date)))))
    /\ f.min_amount # None =>
          row["amount"] # None /\ AmountLE(Val(f.min_amount), Val(row["amount"]))
    /\ f.max_amount # None =>
          row["amount"] # None /\ AmountLE(Val(row["amount"]), Val(f.max_amount))

\* Whether a sorts strictly after b by date descending; NULL is the least date.
DateBelow(a, b) ==
    IF b["date"] = None THEN FALSE
    ELSE IF a["date"] = None THEN TRUE
    ELSE ~PairLE(Val(b["date"]), Val(a["date"]))

\* ORDER BY date DESC of rows read in rowid order; rows of equal date keep
\* that order.
RECURSIVE OrderByDateDesc(_)
OrderByDateDesc(rows) ==
    IF rows = <<>> THEN <<>>
    ELSE LET r == rows[Len(rows)]
             rest == OrderByDateDesc(SubSeq(rows, 1, Len(rows) - 1))
             n == Cardinality({k \in 1..Len(rest) : ~DateBelow(rest[k], r)})
         IN  SubSeq(rest, 1, n) \o <<r>> \o SubSeq(rest, n + 1, Len(rest))

\* LIMIT n: the first n rows, and every row when n is negative, which is no
\* limit to SQLite.
Limit(rows, limit) ==
    IF limit = None \/ Val(limit) < 0 \/ Val(limit) >= Len(rows) THEN rows
    ELSE SubSeq(rows, 1, Val(limit))

\* What the start_date block raises ("" for nothing): the ValueError of
\* strptime, or of timestamp() for 0001-01-01, re-raised as a ValueError.
StartDateRaises(t) ==
    IF Strptime(t) = None \/ Val(Strptime(t)) = <<1, 1, 1>> THEN "ValueError" ELSE ""

\* What the end_date block raises: the ValueError of strptime re-raised, or
\* the OverflowError of adding a day to 9999-12-31, which is not caught.
EndDateRaises(t) ==
    IF Strptime(t) = None THEN "ValueError"
    ELSE IF Val(Strptime(t)) = <<9999, 12, 31>> THEN "OverflowError"
    ELSE ""

\* What the date filters raise, the start date first; a date that is None or
\* empty is not looked at.
DateFilterRaises(f) ==
    IF Truthy(f.start_date) /\ StartDateRaises(Val(f.start_date)) # ""
    THEN StartDateRaises(Val(f.start_date))
    ELSE IF Truthy(f.end_date) THEN EndDateRaises(Val(f.end_date))
    ELSE ""

\* A query that leaves out a date filter it cannot use.
get_user_transactions_skip_bad_dates(table, user_id, f) ==
    LET g == [f EXCEPT !.start_date = IF Truthy(f.start_date) /\ StartDateRaises(Val(f.start_date)) # ""
                                      THEN None ELSE f.start_date,
                       !.end_date = IF Truthy(f.end_date) /\ EndDateRaises(Val(f.end_date)) # ""
                                    THEN None ELSE f.end_date]
    IN  [raised |-> "",
         rows |-> Limit(OrderByDateDesc(
                      SelectSeq(table, LAMBDA r : OwnedBy(r, user_id) /\ RowPasses(r, g))),
                      f.limit)]

\* get_user_transactions: the exception raised ("" for none) and the rows
\* returned.
get_user_transactions(table, user_id, f) ==
    IF DateFilterRaises(f) # "" THEN [raised |-> DateFilterRaises(f), rows |-> <<>>]
    ELSE [raised |-> "",
          rows |-> Limit(OrderByDateDesc(
                       SelectSeq(table, LAMBDA r : OwnedBy(r, user_id) /\ RowPasses(r, f))),
                       f.limit)]

\* A lookup by id alone.
get_transaction_by_id_any_owner(table, user_id, transaction_id) ==
    LET hits == SelectSeq(table, LAMBDA r : r["id"] = transaction_id)
    IN  IF hits = <<>> THEN None ELSE Some(hits[1])

\* get_transaction_by_id: the first row with that owner and id, or None.
get_transaction_by_id(table, user_id, transaction_id) ==
    LET hits == SelectSeq(table, LAMBDA r : OwnedBy(r, user_id) /\ r["id"] = transaction_id)
    IN  IF hits = <<>> THEN None ELSE Some(hits[1])

\* The rows of a user.
UserRows(table, user_id) == SelectSeq(table, LAMBDA r : OwnedBy(r, user_id))

\* NULL first, then text order: the order GROUP BY returns its groups in.
TypeLess(a, b) ==
    IF b = None THEN FALSE
    ELSE IF a = None THEN TRUE
    ELSE TextLess(Val(a), Val(b))

\* A set of types in the order TypeLess, as a sequence.
SortTypes(S) ==
    [k \in 1..Cardinality(S) |->
        CHOOSE x \in S : Cardinality({y \in S : TypeLess(y, x)}) = k - 1]

\* A set of texts in text order, as a sequence.
SortTexts(S) ==
    [k \in 1..Cardinality(S) |->
        CHOOSE x \in S : Cardinality({y \in S : TextLess(y, x)}) = k - 1]

\* GROUP BY type: the distinct types of the rows, in order.
TypeGroups(rows) == SortTypes({rows[k]["type"] : k \in 1..Len(rows)})

RECURSIVE SumNat(_)
SumNat(ns) == IF ns = <<>> THEN 0 ELSE Head(ns) + SumNat(Tail(ns))

\* dashboard.py:95, the first statement of get_transaction_summary: the
\* number of the user's rows.
total_sms(table, user_id) == Len(UserRows(table, user_id))

\* dashboard.py:97-99, its second statement: the user's rows counted by
\* type, a pair <<type, count>> for each distinct type, NULL being one.
type_counts(table, user_id) ==
    LET rows == UserRows(table, user_id)
        groups == TypeGroups(rows)
    IN  [k \in 1..Len(groups) |->
            <<groups[k], Len(SelectSeq(rows, LAMBDA r : r["type"] = groups[k]))>>]

\* dashboard.py:87-92 and 101-109: the dictionary the loop over the counted
\* groups leaves, given what the two statements returned.
summary(total, counts) ==
    LET received == SelectSeq(counts, LAMBDA p : p[1] = Some(T_1))
        sent == SelectSeq(counts, LAMBDA p : p[1] = Some(T_2))
        others == SelectSeq(counts, LAMBDA p : p[1] # Some(T_1) /\ p[1] # Some(T_2))
    IN  [total_sms |-> total,
         received_sms |-> IF received = <<>> THEN 0 ELSE received[Len(received)][2],
         sent_sms |-> IF sent = <<>> THEN 0 ELSE sent[Len(sent)][2],
         unknown_type_sms |-> SumNat([k \in 1..Len(others) |-> others[k][2]])]

\* get_transaction_summary(user_id), the table being table_1 when the
\* first statement runs and table_2 when the second runs: the session holds
\* no transaction over the two reads, so a commit of another request can
\* land between them.
get_transaction_summary(table_1, table_2, user_id) ==
    summary(total_sms(table_1, user_id), type_counts(table_2, user_id))

\* SUM(amount) over rows with an amount, in the order of the rows, as
\* <<units, hundredths>>.
SumAmounts(rows) == AddAmounts([k \in 1..Len(rows) |-> Val(rows[k]["amount"])])

\* The rows of a user that have an amount.
UserAmountRows(table, user_id) ==
    SelectSeq(table, LAMBDA r : OwnedBy(r, user_id) /\ r["amount"] # None)

TypeLabel(g) ==
    IF g = Some(T_1) THEN "Received" ELSE IF g = Some(T_2) THEN "Sent" ELSE "Other"

\* An aggregate with one entry for each label rather than each type code.
volume_by_label(table, user_id) ==
    LET rows == UserAmountRows(table, user_id)
        groups == TypeGroups(rows)
        firsts == {k \in 1..Len(groups) :
                     \A j \in 1..(k - 1) : TypeLabel(groups[j]) # TypeLabel(groups[k])}
        labels == [i \in 1..Cardinality(firsts) |->
                     TypeLabel(groups[CHOOSE k \in firsts :
                                         Cardinality({j \in firsts : j < k}) = i - 1])]
    IN  [labels |-> labels,
         data |-> [i \in 1..Len(labels) |->
                     SumAmounts(SelectSeq(rows, LAMBDA r : TypeLabel(r["type"]) = labels[i]))]]

\* get_transaction_volume_by_type
get_transaction_volume_by_type(table, user_id) ==
    LET rows == UserAmountRows(table, user_id)
        groups == TypeGroups(rows)
    IN  [labels |-> [k \in 1..Len(groups) |-> TypeLabel(groups[k])],
         data |-> [k \in 1..Len(groups) |->
                     SumAmounts(SelectSeq(rows, LAMBDA r : r["type"] = groups[k]))]]

\* A conversion that accepts every date.
AnyTimestamp(date) == TRUE

\* Whether fromtimestamp(ms / 1000) returns for a row's date, rather than
\* raise the ValueError that skips the row.
InTimestampRange(date) == Val(date)[1] >= MinDay /\ Val(date)[1] <= MaxDay

\* The month label of a row's date: fromtimestamp(ms / 1000).strftime('%Y-%m').
RowMonth(row) == MonthLabel(YearMonthOfDay(Val(row["date"])[1]))

\* get_monthly_transaction_volume
get_monthly_transaction_volume(table, user_id) ==
    LET rows == SelectSeq(UserAmountRows(table, user_id),
                          LAMBDA r : r["date"] # None /\ InTimestampRange(r["date"]))
        months == SortTexts({RowMonth(rows[k]) : k \in 1..Len(rows)})
    IN  [labels |-> months,
         data |-> [k \in 1..Len(months) |->
                     SumAmounts(SelectSeq(rows, LAMBDA r : RowMonth(r) = months[k]))]]

\* SUM(amount) over the user's rows of one type that have an amount, as
\* scalar() returns it: None (NULL) when there is no such row.
SumOfType(table, user_id, code) ==
    LET rows == SelectSeq(UserAmountRows(table, user_id), LAMBDA r : r["type"] = Some(code))
    IN  IF rows = <<>> THEN None ELSE Some(SumAmounts(rows))

\* dashboard.py:194-200, the first statement of
\* get_amount_distribution_summary.
received_query(table, user_id) == SumOfType(table, user_id, T_1)

\* dashboard.py:205-211, its second statement.
sent_query(table, user_id) == SumOfType(table, user_id, T_2)

\* dashboard.py:190-191, 202-203 and 213-214: float(q) if q, else the 0.0
\* the total started with.
TotalOr0(q) == IF q = None \/ Val(q) = <<0, 0>> THEN <<0, 0>> ELSE Val(q)

\* get_amount_distribution_summary(user_id), the table being table_1 when
\* the first statement runs and table_2 when the second runs.
get_amount_distribution_summary(table_1, table_2, user_id) ==
    [labels |-> <<"Received", "Sent">>,
     data |-> <<TotalOr0(received_query(table_1, user_id)),
                TotalOr0(sent_query(table_2, user_id))>>]

-----------------------------------------------------------------------------
(* The application: uploads, batch inserts and reads on one table *)

\* The registered users' ids.
Users == {1, 2}

\* The most rows the table holds.
MaxRows == 2

\* The most children of the root of an uploaded document.
MaxDocLen == 2

\* The most records of a batch handed straight to the insert.
MaxBatch == 2

\* Every sequence over S of length at most n.
SeqsUpTo(S, n) == UNION {[1..k -> S] : k \in 0..n}

\* What a document's root may hold.
Items == {SmsFull, SmsSent, SmsOdd, Mms, Malformed}

Docs == SeqsUpTo(Items, MaxDocLen)

T_a_xml == <<"a", ".", "x", "m", "l">>

T_a_txt == <<"a", ".", "t", "x", "t">>

\* The uploads: no file part, no file selected, a file that is not .xml, bytes
\* that are not UTF-8, and every document.
Files ==
    {None,
     Some([filename |-> <<>>, content |-> Some(<<>>)]),
     Some([filename |-> T_a_txt, content |-> Some(<<SmsFull>>)]),
     Some([filename |-> T_a_xml, content |-> None])}
    \cup {Some([filename |-> T_a_xml, content |-> Some(d)]) : d \in Docs}

\* A record with a key that is no column: Transaction(**record) raises.
BadRecord == SmsRecord(SmsOdd) @@ [k \in {"foo"} |-> Some(T_abc)]

\* A record that names an owner of its own.
OwnedRecord == SmsRecord(SmsOdd) @@ [k \in {"user_id"} |-> 2]

SampleRecords == {SmsRecord(SmsFull), SmsRecord(SmsSent), BadRecord, OwnedRecord}

Batches == SeqsUpTo(SampleRecords, MaxBatch)

D_2024_01_01 == <<"2", "0", "2", "4", "-", "0", "1", "-", "0", "1">>

\* A date text of the right shape that names no day.
D_2024_02_30 == <<"2", "0", "2", "4", "-", "0", "2", "-", "3", "0">>

\* The filters a dashboard request carries; empty form fields arrive as "".
DashboardFilters ==
    {[NoFilters EXCEPT !.limit = Some(50)],
     [NoFilters EXCEPT !.limit = Some(50), !.transaction_type = Some(T_1),
                       !.start_date = Some(<<>>), !.end_date = Some(<<>>)],
     [NoFilters EXCEPT !.limit = Some(50), !.end_date = Some(D_2024_01_01),
                       !.min_amount = Some(<<20, 0>>)],
     [NoFilters EXCEPT !.limit = Some(50), !.start_date = Some(D_2024_02_30)]}

Init ==
    /\ store = <<>>
    /\ last = IdleLast
    /\ body = None
    /\ extracted = FALSE
    /\ amount = None
    /\ pieces = 0

\* parse_sms_xml_content(doc)
Parse ==
    /\ last = IdleLast
    /\ \E d \in Docs :
          last' = [op |-> "parse", doc |-> d, result |-> parse_sms_xml_content(d)]
    /\ UNCHANGED <<store, body, extracted, amount, pieces>>

\* insert_transactions_from_parsed_data(user_id, parsed_data); commit_ok is
\* whether the database accepts the commit, when the batch gets that far.
InsertBatch ==
    /\ last = IdleLast
    /\ \E u \in Users, b \in Batches :
       \E commit_ok \in (IF b = <<>> THEN {TRUE} ELSE BOOLEAN) :
          \E r \in insert_transactions_from_parsed_data(store, u, b, commit_ok) :
              /\ Len(r.table) <= MaxRows
              /\ store' = r.table
              /\ last' = [op |-> "insert", user |-> u, parsed_data |-> b,
                          commit_ok |-> commit_ok, returned |-> r.returned,
                          rolled_back |-> r.rolled_back]
    /\ UNCHANGED <<body, extracted, amount, pieces>>

\* Whether an upload gets as far as the commit of a batch.
ReachesCommit(f) ==
    /\ f # None
    /\ EndsWith(Val(f).filename, DotXml)
    /\ Val(f).content # None
    /\ parse_sms_xml_content(Val(Val(f).content)) # <<>>

\* POST /upload_xml by a logged-in user; commit_ok is whether the database
\* accepts the commit, when the request gets that far.
Upload ==
    /\ last = IdleLast
    /\ \E u \in Users, f \in Files :
       \E commit_ok \in (IF ReachesCommit(f) THEN BOOLEAN ELSE {TRUE}) :
          \E r \in upload_xml(store, u, f, commit_ok) :
              /\ Len(r.table) <= MaxRows
              /\ store' = r.table
              /\ last' = [op |-> "upload", user |-> u, file |-> f,
                          commit_ok |-> commit_ok, flash |-> r.flash]
    /\ UNCHANGED <<body, extracted, amount, pieces>>

\* GET /api/transaction/<id> by a logged-in user.
GetById ==
    /\ last = IdleLast
    /\ \E u \in Users, id \in 1..(MaxRows + 1) :
          last' = [op |-> "get_by_id", user |-> u, transaction_id |-> id,
                   result |-> get_transaction_by_id(store, u, id)]
    /\ UNCHANGED <<store, body, extracted, amount, pieces>>

\* The call returns, the response leaves: the next request starts afresh. A
\* request of several statements has run them all by then.
Respond ==
    /\ last # IdleLast
    /\ "pc" \in DOMAIN last => last.pc = "done"
    /\ last' = IdleLast
    /\ UNCHANGED <<store, body, extracted, amount, pieces>>

Next == Parse \/ InsertBatch \/ Upload \/ GetById \/ Respond

Spec == Init /\ [][Next]_vars

-----------------------------------------------------------------------------
(* Properties of the application *)

\* C1: get_transaction_by_id returns not found, or a stored transaction with
\* the requested id that the requesting user owns; for the id of another
\* user's transaction it returns not found.
C1_GetByIdOwner ==
    last.op = "get_by_id" =>
        /\ last.result # None =>
              /\ Val(last.result)["id"] = last.transaction_id
              /\ Val(last.result)["user_id"] = last.user
              /\ \E k \in 1..Len(store) : store[k] = Val(last.result)
        /\ (\E k \in 1..Len(store) :
               store[k]["id"] = last.transaction_id /\ store[k]["user_id"] # last.user)
              => last.result = None

\* C1 witness: a user asked for the id of a transaction another user owns and
\* got not found.
C1_Witness ==
    /\ last.op = "get_by_id"
    /\ last.result = None
    /\ \E k \in 1..Len(store) :
          store[k]["id"] = last.transaction_id /\ store[k]["user_id"] # last.user

\* What every statement of the queries returns to a user from a table: the
\* transaction list under each filter set, the two statements of the type
\* summary, the two charts of one statement each, the two statements of the
\* received/sent distribution, and each transaction by id. The result of an
\* operation is made of what its statements return, whatever the commits
\* that land between them.
AllViews(table, a) ==
    [transactions |-> [f \in DashboardFilters |-> get_user_transactions(table, a, f)],
     total_sms |-> total_sms(table, a),
     type_counts |-> type_counts(table, a),
     chart_volume_by_type |-> get_transaction_volume_by_type(table, a),
     chart_monthly_volume |-> get_monthly_transaction_volume(table, a),
     received_query |-> received_query(table, a),
     sent_query |-> sent_query(table, a),
     by_id |-> [id \in 1..(MaxRows + 1) |-> get_transaction_by_id(table, a, id)]]

\* The table with only the rows of one user.
OnlyUser(table, a) == SelectSeq(table, LAMBDA r : r["user_id"] = a)

\* C2: a user's views are those of a table holding that user's transactions
\* alone (looked at between requests, where every table the program reaches
\* is found), and no insert or upload by another user changes them.
C2_NonInterference ==
    /\ [](last = IdleLast =>
            \A a \in Users : AllViews(store, a) = AllViews(OnlyUser(store, a), a))
    /\ [][\A a \in Users :
             (last'.op \in {"insert", "upload"} /\ last'.user # a)
                 => (store' = store \/ AllViews(store', a) = AllViews(store, a))]_vars

\* C2 witness: a batch insert by one user has added rows to a table where
\* another user has transactions.
C2_Witness ==
    /\ last.op = "insert"
    /\ last.returned > 0
    /\ \E a \in Users \ {last.user} : UserRows(store, a) # <<>>

\* C3: when the commit of a batch insert fails the call returns 0, rolls the
\* session back, and the table is what it was before the call.
C3_CommitFailureAtomic ==
    [][(last'.op = "insert" /\ ~last'.commit_ok)
          => (last'.returned = 0 /\ last'.rolled_back /\ store' = store)]_vars

\* C3 witness: a batch with constructed records failed to commit on a table
\* that already held rows, and 0 was returned.
C3_Witness ==
    /\ last.op = "insert"
    /\ ~last.commit_ok
    /\ last.returned = 0
    /\ \E k \in 1..Len(last.parsed_data) : DOMAIN last.parsed_data[k] \subseteq Columns
    /\ store # <<>>

-----------------------------------------------------------------------------
(* The batch insert over records with keys of every kind *)

\* The most rows of the table and the most records of a batch.
MaxInsertRows == 3

MaxInsertBatch == 3

\* A record with a key that is a class attribute and no column: the
\* constructor sets it on the instance, and the row has the columns.
MetaRecord == SmsRecord(SmsSent) @@ [k \in {"metadata"} |-> Some(T_abc)]

\* A record with a key the class has an attribute of that setattr refuses.
ClassRecord == SmsRecord(SmsSent) @@ [k \in {"__class__"} |-> Some(T_abc)]

\* A record with an id of its own.
RecordWithId(n) == SmsRecord(SmsFull) @@ [k \in {"id"} |-> Some(n)]

InsertRecords ==
    {OwnedRecord, BadRecord, MetaRecord, ClassRecord, RecordWithId(2), RecordWithId(4)}

\* The batches tried: every batch of one or two records, and the longer
\* ones that hold a record that fails, the record with the key metadata and
\* the one that names an owner.
InsertBatches ==
    {b \in SeqsUpTo(InsertRecords, MaxInsertBatch) :
        Len(b) > 2 =>
            /\ \E k \in 1..Len(b) : b[k] \in {BadRecord, ClassRecord}
            /\ \E k \in 1..Len(b) : b[k] = MetaRecord
            /\ \E k \in 1..Len(b) : b[k] = OwnedRecord}

\* The users who insert: every user but the owner that OwnedRecord names.
InsertCallers == Users \ {OwnedRecord["user_id"]}

\* insert_transactions_from_parsed_data(user_id, parsed_data) on such a batch.
InsertRecordsBatch ==
    /\ last = IdleLast
    /\ \E u \in InsertCallers, b \in InsertBatches :
       \E commit_ok \in (IF b = <<>> THEN {TRUE} ELSE BOOLEAN) :
          \E r \in insert_transactions_from_parsed_data(store, u, b, commit_ok) :
              /\ Len(r.table) <= MaxInsertRows
              /\ store' = r.table
              /\ last' = [op |-> "insert", user |-> u, parsed_data |-> b,
                          commit_ok |-> commit_ok, returned |-> r.returned,
                          rolled_back |-> r.rolled_back]
    /\ UNCHANGED <<body, extracted, amount, pieces>>

InsertNext == InsertRecordsBatch \/ Respond

SpecInsert == Init /\ [][InsertNext]_vars

\* The records of a batch that construct: the class has an attribute of
\* every key, and an instance lets each be set.
Constructible(parsed_data) ==
    SelectSeq(parsed_data,
              LAMBDA rec : \A key \in DOMAIN rec : HasAttr(key) /\ key \notin Unsettable)

\* Whether a row is what a record becomes in an insert by user u: the
\* record's values in the columns it names (the two dates as integers, or
\* NULL when they are none), NULL in the others, its id when it has one, and
\* u for owner whatever the record says.
RowOf(row, rec, u) ==
    /\ row["user_id"] = u
    /\ ("id" \in DOMAIN rec /\ rec["id"] # None) => row["id"] = Val(rec["id"])
    /\ \A c \in AttrSet \cup {"amount"} :
          row[c] = IF c \notin DOMAIN rec THEN None
                   ELSE IF c \in {"date", "date_sent"} /\ rec[c] # None
                        THEN IntOrNone(Val(rec[c]))
                   ELSE rec[c]

\* The ways to pair n records with n rows.
Pairings(n) == {p \in [1..n -> 1..n] : \A i, j \in 1..n : i # j => p[i] # p[j]}

\* C4: when the commit succeeds a batch insert returns the number of records
\* of the batch that constructed, the rows the table had are still there, and
\* the rows added are those records one for one, each owned by the user_id
\* argument; a record that does not construct aborts nothing.
C4_SkipFailedRecords ==
    [][(last'.op = "insert" /\ ~last'.rolled_back) =>
          LET good == Constructible(last'.parsed_data)
              old == {store[k]["id"] : k \in 1..Len(store)}
              added == SelectSeq(store', LAMBDA r : r["id"] \notin old)
          IN  /\ last'.returned = Len(good)
              /\ SelectSeq(store', LAMBDA r : r["id"] \in old) = store
              /\ Len(added) = Len(good)
              /\ \E p \in Pairings(Len(good)) :
                    \A k \in 1..Len(good) : RowOf(added[p[k]], good[k], last'.user)]_vars

\* C4 witness: a committed batch of three where the record with a key the
\* class has no attribute of was skipped, the record with the key metadata
\* was stored, and the record naming another owner was stored for the
\* caller; two was returned.
C4_Witness ==
    /\ last.op = "insert"
    /\ ~last.rolled_back
    /\ Len(last.parsed_data) = 3
    /\ last.returned = 2
    /\ \E k \in 1..3 : last.parsed_data[k] = BadRecord
    /\ \E k \in 1..3 : last.parsed_data[k] = MetaRecord
    /\ \E k \in 1..3 :
          /\ last.parsed_data[k] = OwnedRecord
          /\ OwnedRecord["user_id"] # last.user
    /\ Len(store) = 2
    /\ \A k \in 1..2 : store[k]["user_id"] = last.user

\* Whether an upload hands a document to the parser.
UploadParses(l) ==
    /\ l.op = "upload"
    /\ l.file # None
    /\ EndsWith(Val(l.file).filename, DotXml)
    /\ Val(l.file).content # None

UploadedDoc(l) == Val(Val(l.file).content)

\* C5: for a document that is not well-formed the parser returns the empty
\* sequence, whatever elements come before the fault, and an upload of such
\* a document leaves the table unchanged.
C5_ParseAllOrNothing ==
    /\ []((last.op = "parse" /\ ~IsWellFormed(last.doc)) => last.result = <<>>)
    /\ [][(UploadParses(last') /\ ~IsWellFormed(UploadedDoc(last')))
             => (store' = store /\ last'.flash.category = "error")]_vars

\* C5 witness: an upload of a document with an sms element before the fault
\* ended with the table as it was.
C5_Witness ==
    /\ UploadParses(last)
    /\ Len(UploadedDoc(last)) >= 2
    /\ UploadedDoc(last)[1].tag = "sms"
    /\ ~IsWellFormed(UploadedDoc(last))
    /\ last.flash.category = "error"

\* C6 as claimed: an upload whose batch is not persisted, because the
\* document cannot be parsed or because the commit fails, ends with a
\* failure message and never a success message.
C6_UploadFailureReported ==
    (UploadParses(last) /\ (~IsWellFormed(UploadedDoc(last)) \/ ~last.commit_ok))
        => last.flash.category = "error"

\* The sms elements of a document, in order.
SmsElements(d) == SelectSeq(d, LAMBDA el : el.tag = "sms")

\* C9: for a well-formed document the parser returns one record per sms
\* element of the root, in document order, each listed attribute the
\* element's text unchanged when it has it and None when it has not.
C9_ParseRoundTrip ==
    (last.op = "parse" /\ IsWellFormed(last.doc)) =>
        /\ Len(last.result) = Len(SmsElements(last.doc))
        /\ \A k \in 1..Len(last.result) : \A a \in AttrSet :
              last.result[k][a] =
                  IF a \in DOMAIN SmsElements(last.doc)[k].attrs
                  THEN Some(SmsElements(last.doc)[k].attrs[a]) ELSE None

\* C9 witness: two sms elements were parsed in order, the first with a date
\* that is no number and without a type.
C9_Witness ==
    /\ last.op = "parse"
    /\ Len(last.result) = 2
    /\ last.doc = <<SmsOdd, SmsFull>>
    /\ last.result[1]["date"] = Some(T_abc)
    /\ last.result[1]["type"] = None
    /\ last.result[2]["date"] = Some(T_2024_01_01_000)

-----------------------------------------------------------------------------
(* The transaction list on its own: single uploads fill the table, then
   get_user_transactions is called with every combination of filters. *)

\* The most rows the table holds when lists are taken.
MaxListRows == 3

D_2024_02_01 == <<"2", "0", "2", "4", "-", "0", "2", "-", "0", "1">>

\* Who inserts what: user 1 every kind of record, user 2 one kind.
ListInserts ==
    ({1} \X {SmsRecord(SmsFull), SmsRecord(SmsSent), SmsRecord(SmsOdd), SmsRecord(SmsOther)})
        \cup ({2} \X {SmsRecord(SmsFull)})

\* The filter values tried; "" is what an empty form field sends.
ListFilters ==
    [transaction_type : {None, Some(<<>>), Some(T_1)},
     start_date : {None, Some(D_2024_02_01)},
     end_date : {None, Some(D_2024_01_01)},
     min_amount : {None, Some(<<20, 0>>)},
     max_amount : {None, Some(<<1500, 0>>)},
     limit : {None, Some(-1), Some(0), Some(1)}]

D_0001_01_01 == <<"0", "0", "0", "1", "-", "0", "1", "-", "0", "1">>

D_9999_12_31 == <<"9", "9", "9", "9", "-", "1", "2", "-", "3", "1">>

\* The date texts tried: none, the empty text, a date, texts that are no
\* date, and the first and the last day strptime accepts.
DateTexts ==
    {None, Some(<<>>), Some(D_2024_01_01), Some(D_2024_02_30), Some(T_abc),
     Some(D_0001_01_01), Some(D_9999_12_31)}

\* Filters with every pair of date texts, with and without another filter
\* and a limit.
DateFilters ==
    [transaction_type : {None},
     start_date : DateTexts,
     end_date : DateTexts,
     min_amount : {None, Some(<<20, 0>>)},
     max_amount : {None},
     limit : {None, Some(1)}]

\* One record is parsed and inserted for a user, and committed.
ListInsert ==
    /\ last = IdleLast
    /\ Len(store) < MaxListRows
    /\ \E ur \in ListInserts :
       \E r \in insert_transactions_from_parsed_data(store, ur[1], <<ur[2]>>, TRUE) :
          store' = r.table
    /\ UNCHANGED <<last, body, extracted, amount, pieces>>

\* get_user_transactions(user_id, **filters)
ListTransactions ==
    /\ last = IdleLast
    /\ \E u \in Users, f \in ListFilters \cup DateFilters :
          last' = [op |-> "list", user |-> u, filters |-> f,
                   result |-> get_user_transactions(store, u, f)]
    /\ UNCHANGED <<store, body, extracted, amount, pieces>>

ListNext == ListInsert \/ ListTransactions \/ Respond

SpecList == Init /\ [][ListNext]_vars

\* The day, counted from 1970-01-01, of each date the filters name.
FilterDay(d) ==
    IF d = D_2024_01_01 THEN 19723
    ELSE IF d = D_0001_01_01 THEN -719162
    ELSE IF d = D_9999_12_31 THEN 2932896
    ELSE 19754

\* Whether date a is earlier than date b; NULL is earlier than every date.
Earlier(a, b) ==
    IF b = None THEN FALSE
    ELSE IF a = None THEN TRUE
    ELSE Val(a)[1] < Val(b)[1] \/ (Val(a)[1] = Val(b)[1] /\ Val(a)[2] < Val(b)[2])

\* Whether a text filter is supplied, read as the code reads it: the empty
\* text an empty form field sends supplies none.
Given(o) == o # None /\ o # Some(<<>>)

\* Whether a row is one the list must hold: the user's own, and within every
\* filter supplied.
Wanted(row, u, f) ==
    /\ row["user_id"] = u
    /\ Given(f.transaction_type) => row["type"] = f.transaction_type
    /\ Given(f.start_date)
          => row["date"] # None /\ ~Earlier(row["date"], Some(<<FilterDay(Val(f.start_date)), 0>>))
    /\ Given(f.end_date)
          => row["date"] # None /\ Earlier(row["date"], Some(<<FilterDay(Val(f.end_date)) + 1, 0>>))
    /\ f.min_amount # None
          => row["amount"] # None /\ AmountLE(Val(f.min_amount), Val(row["amount"]))
    /\ f.max_amount # None
          => row["amount"] # None /\ AmountLE(Val(row["amount"]), Val(f.max_amount))

\* Whether every date filter supplied is the text of a date.
DatesParse(f) ==
    \A d \in {f.start_date, f.end_date} : Given(d) => Strptime(Val(d)) # None

\* C10 as stated, read where it is silent as the code behaves: a list call
\* whose supplied date filters are dates returns a list, which holds the
\* user's transactions that pass every supplied filter, each once, the most
\* recent first, and with a limit the first that many of that order. An
\* empty text supplies no filter, and nothing is asked of the length of the
\* list when the limit is negative, which is no number of entries.
C10_ListFiltered ==
    (last.op = "list" /\ DatesParse(last.filters)) =>
        LET rows == last.result.rows
            limit == last.filters.limit
            wanted == {k \in 1..Len(store) : Wanted(store[k], last.user, last.filters)}
            listed == {k \in 1..Len(store) : \E i \in 1..Len(rows) : rows[i] = store[k]}
        IN  /\ last.result.raised = ""
            /\ listed \subseteq wanted
            /\ \A i \in 1..Len(rows) : \E k \in 1..Len(store) : rows[i] = store[k]
            /\ \A i, j \in 1..Len(rows) : i < j =>
                  rows[i]["id"] # rows[j]["id"] /\ ~Earlier(rows[i]["date"], rows[j]["date"])
            /\ limit = None => listed = wanted
            /\ (limit # None /\ Val(limit) >= Cardinality(wanted)) => listed = wanted
            /\ (limit # None /\ Val(limit) >= 0 /\ Val(limit) < Cardinality(wanted)) =>
                  /\ Len(rows) = Val(limit)
                  /\ \A k \in wanted \ listed : \A i \in 1..Len(rows) :
                        ~Earlier(rows[i]["date"], store[k]["date"])

\* The date filters of a call that are texts with no date in them.
UnparsedDates(f, texts) ==
    {d \in {f.start_date, f.end_date} : d \in texts /\ Strptime(Val(d)) = None}

\* A call that failed: it raised a ValueError and returned no list.
ListFailed(result) == result.raised = "ValueError" /\ result.rows = <<>>

\* The filters with no date in the place of a date that is the empty text.
WithoutEmptyDates(f) ==
    [f EXCEPT !.start_date = IF @ = Some(<<>>) THEN None ELSE @,
              !.end_date = IF @ = Some(<<>>) THEN None ELSE @]

\* C11 as stated: a list call with a start or end date that is given and
\* does not parse as a date fails with no list, and the store is unchanged.
C11_Original ==
    /\ [](last.op = "list" /\ UnparsedDates(last.filters, DateTexts \ {None}) # {}
            => ListFailed(last.result))
    /\ [][last'.op = "list" => store' = store]_vars

\* C11: a list call with a start or end date that is a non-empty text and
\* does not parse as a date raises a ValueError and returns no list, whatever
\* the other filters are, and the store is unchanged; an empty text is taken
\* as no filter.
C11_BadDateReported ==
    /\ [](last.op = "list" /\ UnparsedDates(last.filters, DateTexts \ {None, Some(<<>>)}) # {}
            => ListFailed(last.result))
    /\ [](last.op = "list"
            => last.result = get_user_transactions(store, last.user, WithoutEmptyDates(last.filters)))
    /\ [][last'.op = "list" => store' = store]_vars

\* C11 witness: a user with a transaction that passes the other filters
\* listed with a good start date and an end date that names no day, and the
\* call raised.
C11_Witness ==
    /\ last.op = "list"
    /\ last.filters.start_date = Some(D_2024_01_01)
    /\ last.filters.end_date = Some(D_2024_02_30)
    /\ last.filters.min_amount = Some(<<20, 0>>)
    /\ last.result.raised = "ValueError"
    /\ \E k \in 1..Len(store) :
          /\ store[k]["user_id"] = last.user
          /\ store[k]["date"] = Some(<<19754, 0>>)
          /\ store[k]["amount"] = Some(<<20, 0>>)

-----------------------------------------------------------------------------
(* backend/dashboard.py: the aggregates over a table of every kind of row *)

\* The most rows of the table the aggregates are taken over.
MaxChartRows == 3

\* The first millisecond of the year 10000, the last of the year 999.
T_10000_01_01 == <<"2", "5", "3", "4", "0", "2", "3", "0", "0", "8", "0", "0", "0", "0", "0">>

T_0999_12_31_end == <<"-", "3", "0", "6", "1", "0", "2", "2", "4", "0", "0", "0", "0", "0", "1">>

\* An element with an amount, no type, and a date past the year 9999.
SmsFar ==
    [tag |-> "sms",
     attrs |-> [k \in {"date", "body"} |->
                  CASE k = "date" -> T_10000_01_01
                    [] OTHER -> Body_is20]]

\* A received element of the year 999.
SmsOld ==
    [tag |-> "sms",
     attrs |-> [k \in {"date", "type", "body"} |->
                  CASE k = "date" -> T_0999_12_31_end
                    [] k = "type" -> T_1
                    [] OTHER -> Body_1500RWF]]

\* A sent element with a date and no amount in its body.
SmsPlain ==
    [tag |-> "sms",
     attrs |-> [k \in {"date", "type", "body"} |->
                  CASE k = "date" -> T_2024_01_01_000
                    [] k = "type" -> T_2
                    [] OTHER -> Body_hello]]

\* A sent element with an amount and a date that is no number.
SmsUndated ==
    [tag |-> "sms",
     attrs |-> [k \in {"date", "type", "body"} |->
                  CASE k = "date" -> T_abc
                    [] k = "type" -> T_2
                    [] OTHER -> Body_is20]]

\* Who inserts what: user 1 every kind of record, user 2 one kind.
ChartInserts ==
    ({1} \X {SmsRecord(SmsFull), SmsRecord(SmsSent), SmsRecord(SmsOdd), SmsRecord(SmsOther),
             SmsRecord(SmsFar), SmsRecord(SmsOld), SmsRecord(SmsPlain), SmsRecord(SmsUndated)})
        \cup ({2} \X {SmsRecord(SmsFull)})

\* One record is parsed and inserted for a user, and committed: by a request
\* of its own, between two others or between the two statements of a type
\* summary that another request has asked for.
ChartInsert ==
    /\ IF last.op = "summary" THEN last.pc = "type_counts" ELSE last = IdleLast
    /\ Len(store) < MaxChartRows
    /\ \E ur \in ChartInserts :
       \E r \in insert_transactions_from_parsed_data(store, ur[1], <<ur[2]>>, TRUE) :
          store' = r.table
    /\ UNCHANGED <<last, body, extracted, amount, pieces>>

\* get_transaction_summary(user_id) is called and runs its first statement,
\* the count (dashboard.py:95).
SummaryTotal ==
    /\ last = IdleLast
    /\ \E u \in Users :
          last' = [op |-> "summary", user |-> u, pc |-> "type_counts",
                   total_sms |-> total_sms(store, u), result |-> None]
    /\ UNCHANGED <<store, body, extracted, amount, pieces>>

\* Its second statement, the counts by type, on the table as it is by then,
\* the loop over them and the return (dashboard.py:97-109).
SummaryTypeCounts ==
    /\ last # IdleLast
    /\ last.op = "summary"
    /\ last.pc = "type_counts"
    /\ last' = [last EXCEPT !.pc = "done",
                            !.result = Some(summary(last.total_sms, type_counts(store, last.user)))]
    /\ UNCHANGED <<store, body, extracted, amount, pieces>>

\* get_transaction_volume_by_type(user_id)
VolumeByType ==
    /\ last = IdleLast
    /\ \E u \in Users :
          last' = [op |-> "volume_by_type", user |-> u,
                   result |-> get_transaction_volume_by_type(store, u)]
    /\ UNCHANGED <<store, body, extracted, amount, pieces>>

\* get_monthly_transaction_volume(user_id)
MonthlyVolume ==
    /\ last = IdleLast
    /\ \E u \in Users :
          last' = [op |-> "monthly_volume", user |-> u,
                   result |-> get_monthly_transaction_volume(store, u)]
    /\ UNCHANGED <<store, body, extracted, amount, pieces>>

ChartNext ==
    ChartInsert \/ SummaryTotal \/ SummaryTypeCounts \/ VolumeByType \/ MonthlyVolume \/ Respond

SpecCharts == Init /\ [][ChartNext]_vars

\* The rows of the store, by position, that a user owns and that satisfy P.
Owned(u) == {k \in 1..Len(store) : store[k]["user_id"] = u}

OfType(u, code) == {k \in Owned(u) : store[k]["type"] = Some(code)}

\* The user's rows, by position, that have an amount.
WithAmount(u) == {k \in Owned(u) : store[k]["amount"] # None}

\* The sum of the amounts of the rows at a set of positions.
RECURSIVE TotalAt(_)
TotalAt(S) ==
    IF S = {} THEN <<0, 0>>
    ELSE LET k == CHOOSE k \in S : TRUE
         IN  AmountAdd(Val(store[k]["amount"]), TotalAt(S \ {k}))

\* The label a type code maps to.
LabelOf(type) ==
    IF type = Some(T_1) THEN "Received" ELSE IF type = Some(T_2) THEN "Sent" ELSE "Other"

\* C13 as stated: labels and data are of one length, every label is
\* "Received", "Sent" or "Other", data[i] is the sum of the amounts of the
\* user's transactions that map to labels[i], and computing the view again
\* over the same store gives the same view.
C13_Original ==
    last.op = "volume_by_type" =>
        LET v == last.result
            u == last.user
        IN  /\ Len(v.labels) = Len(v.data)
            /\ \A i \in 1..Len(v.labels) :
                  /\ v.labels[i] \in {"Received", "Sent", "Other"}
                  /\ v.data[i] = TotalAt({k \in WithAmount(u) :
                                            LabelOf(store[k]["type"]) = v.labels[i]})
            /\ get_transaction_volume_by_type(store, u) = v

\* C13: the view has one entry for each distinct type code (no type being
\* one of them) among the user's transactions that have an amount: labels
\* and data are of one length, labels[i] is the label of the i-th code,
\* data[i] the sum of the amounts of the transactions of that code, so that
\* "Other" appears once for each code other than "1" and "2"; transactions
\* without an amount add nothing, and computing the view again over the same
\* store gives the same view.
C13_VolumeByTypeCode ==
    last.op = "volume_by_type" =>
        LET v == last.result
            u == last.user
            codes == {store[k]["type"] : k \in WithAmount(u)}
        IN  /\ Len(v.labels) = Len(v.data)
            /\ Len(v.labels) = Cardinality(codes)
            /\ \E code \in [1..Len(v.labels) -> codes] :
                  /\ \A i, j \in 1..Len(v.labels) : i # j => code[i] # code[j]
                  /\ \A i \in 1..Len(v.labels) :
                        /\ v.labels[i] = LabelOf(code[i])
                        /\ v.data[i] = TotalAt({k \in WithAmount(u) : store[k]["type"] = code[i]})
            /\ get_transaction_volume_by_type(store, u) = v

\* C13 witness: a view for a user with amounts under type "3", under no type
\* and under type "1", and a transaction without an amount, has the entries
\* Other, Received, Other.
C13_Witness ==
    /\ last.op = "volume_by_type"
    /\ last.result.labels = <<"Other", "Received", "Other">>
    /\ last.result.data = <<<<20, 0>>, <<1500, 0>>, <<778899, 0>>>>

\* The user's rows, by position, that have an amount and a date.
Dated(u) == {k \in WithAmount(u) : store[k]["date"] # None}

\* The day of a row's date, counted from 1970-01-01.
DayOf(k) == Val(store[k]["date"])[1]

\* The year and the month a label names, from the text before and after its
\* dash; <<0, 0>> when it is not digits, a dash and two digits.
LabelMonth(l) ==
    IF /\ Len(l) >= 4
       /\ l[Len(l) - 2] = "-"
       /\ \A k \in 1..Len(l) : k # Len(l) - 2 => IsDigit(l[k])
    THEN <<DigitsValue(SubSeq(l, 1, Len(l) - 3)), DigitsValue(SubSeq(l, Len(l) - 1, Len(l)))>>
    ELSE <<0, 0>>

\* Whether a day lies in the calendar month ym.
InMonth(day, ym) ==
    /\ ym[2] \in 1..12
    /\ DaysFromCivil(ym[1], ym[2], 1) <= day
    /\ day < (IF ym[2] = 12 THEN DaysFromCivil(ym[1] + 1, 1, 1)
                             ELSE DaysFromCivil(ym[1], ym[2] + 1, 1))

\* C14 as stated: the labels are strictly ascending "YYYY-MM" texts, one for
\* each calendar month in which the user has a transaction with a date and
\* an amount, and data[i] is the sum of the amounts of those transactions of
\* month labels[i].
C14_Original ==
    last.op = "monthly_volume" =>
        LET v == last.result
            u == last.user
        IN  /\ Len(v.labels) = Len(v.data)
            /\ \A i, j \in 1..Len(v.labels) : i < j => TextLess(v.labels[i], v.labels[j])
            /\ \A i \in 1..Len(v.labels) :
                  /\ Len(v.labels[i]) = 7
                  /\ LabelMonth(v.labels[i]) # <<0, 0>>
                  /\ {k \in Dated(u) : InMonth(DayOf(k), LabelMonth(v.labels[i]))} # {}
                  /\ v.data[i] =
                        TotalAt({k \in Dated(u) : InMonth(DayOf(k), LabelMonth(v.labels[i]))})
            /\ \A k \in Dated(u) :
                  \E i \in 1..Len(v.labels) : InMonth(DayOf(k), LabelMonth(v.labels[i]))

\* C14: the labels are strictly ascending in text order, one for each
\* calendar month in which the user has a transaction with an amount and a
\* date from 0001-01-02 to 9999-12-31; a label is the year without leading
\* zeros, a dash and the two-digit month, so "YYYY-MM" from the year 1000
\* on; data[i] is the sum of the amounts of those transactions of month
\* labels[i]; a transaction with no date, no amount or a date outside that
\* range is skipped.
C14_MonthlyVolume ==
    last.op = "monthly_volume" =>
        LET v == last.result
            u == last.user
            counted == {k \in Dated(u) : DayOf(k) >= MinDay /\ DayOf(k) <= MaxDay}
        IN  /\ Len(v.labels) = Len(v.data)
            /\ \A i, j \in 1..Len(v.labels) : i < j => TextLess(v.labels[i], v.labels[j])
            /\ \A i \in 1..Len(v.labels) :
                  /\ LabelMonth(v.labels[i])[1] \in 1..9999
                  /\ v.labels[i][1] # "0"
                  /\ LabelMonth(v.labels[i])[1] >= 1000 => Len(v.labels[i]) = 7
                  /\ {k \in counted : InMonth(DayOf(k), LabelMonth(v.labels[i]))} # {}
                  /\ v.data[i] =
                        TotalAt({k \in counted : InMonth(DayOf(k), LabelMonth(v.labels[i]))})
            /\ \A k \in counted :
                  \E i \in 1..Len(v.labels) : InMonth(DayOf(k), LabelMonth(v.labels[i]))

\* C14 witness: a user with two transactions of January 2024 and one with an
\* amount dated in the year 10000 got the single month 2024-01 with the sum
\* of the two.
C14_Witness ==
    /\ last.op = "monthly_volume"
    /\ last.result.labels = <<<<"2", "0", "2", "4", "-", "0", "1">>>>
    /\ last.result.data = <<<<780399, 0>>>>
    /\ \E k \in Dated(last.user) : DayOf(k) > MaxDay

-----------------------------------------------------------------------------
(* backend/app.py: dashboard, statement by statement. The handler makes five
   calls, each in a session of its own, that send seven statements in all;
   no transaction spans two statements, and the requests of other threads
   and workers commit between them. *)

\* The most rows of the table while a dashboard is followed.
MaxDashRows == 2

\* Who commits what meanwhile: user 1 a received, a sent and an untyped
\* record, user 2 a received one.
DashInserts ==
    ({1} \X {SmsRecord(SmsFull), SmsRecord(SmsSent), SmsRecord(SmsOdd)})
        \cup ({2} \X {SmsRecord(SmsFull)})

\* A batch insert of another request commits, between two requests or
\* between two statements of the dashboard being rendered.
DashCommit ==
    /\ IF last = IdleLast THEN TRUE ELSE last.pc # "done"
    /\ Len(store) < MaxDashRows
    /\ \E ur \in DashInserts :
       \E r \in insert_transactions_from_parsed_data(store, ur[1], <<ur[2]>>, TRUE) :
          store' = r.table
    /\ UNCHANGED <<last, body, extracted, amount, pieces>>

\* GET /dashboard by a logged-in user, up to the return of
\* get_user_transactions (app.py:60-79): its one statement has run, or it
\* has raised and the handler lets the exception through.
Dashboard ==
    /\ last = IdleLast
    /\ \E u \in Users, f \in DashboardFilters :
          LET r == get_user_transactions(store, u, f)
          IN  last' = [op |-> "dashboard", user |-> u, filters |-> f,
                       pc |-> IF r.raised # "" THEN "done" ELSE "total_sms",
                       raised |-> r.raised,
                       transactions |-> IF r.raised # "" THEN None ELSE Some(r.rows),
                       total_sms |-> None,
                       summary_counts |-> None,
                       chart_volume_by_type |-> None,
                       chart_monthly_volume |-> None,
                       received_query |-> None,
                       chart_amount_distribution |-> None]
    /\ UNCHANGED <<store, body, extracted, amount, pieces>>

\* Whether the dashboard being rendered is about to run the statement pc.
DashboardAt(pc) == last # IdleLast /\ last.op = "dashboard" /\ last.pc = pc

\* get_transaction_summary, first statement (app.py:83, dashboard.py:95).
DashboardTotalSms ==
    /\ DashboardAt("total_sms")
    /\ last' = [last EXCEPT !.pc = "type_counts",
                            !.total_sms = Some(total_sms(store, last.user))]
    /\ UNCHANGED <<store, body, extracted, amount, pieces>>

\* get_transaction_summary, second statement and return (dashboard.py:97-109).
DashboardTypeCounts ==
    /\ DashboardAt("type_counts")
    /\ last' = [last EXCEPT !.pc = "volume_by_type",
                            !.summary_counts =
                                Some(summary(Val(last.total_sms), type_counts(store, last.user)))]
    /\ UNCHANGED <<store, body, extracted, amount, pieces>>

\* get_transaction_volume_by_type (app.py:86).
DashboardVolumeByType ==
    /\ DashboardAt("volume_by_type")
    /\ last' = [last EXCEPT !.pc = "monthly_volume",
                            !.chart_volume_by_type =
                                Some(get_transaction_volume_by_type(store, last.user))]
    /\ UNCHANGED <<store, body, extracted, amount, pieces>>

\* get_monthly_transaction_volume (app.py:87).
DashboardMonthlyVolume ==
    /\ DashboardAt("monthly_volume")
    /\ last' = [last EXCEPT !.pc = "received_query",
                            !.chart_monthly_volume =
                                Some(get_monthly_transaction_volume(store, last.user))]
    /\ UNCHANGED <<store, body, extracted, amount, pieces>>

\* get_amount_distribution_summary, first statement (app.py:88,
\* dashboard.py:194-200).
DashboardReceivedQuery ==
    /\ DashboardAt("received_query")
    /\ last' = [last EXCEPT !.pc = "sent_query",
                            !.received_query = Some(received_query(store, last.user))]
    /\ UNCHANGED <<store, body, extracted, amount, pieces>>

\* get_amount_distribution_summary, second statement and return
\* (dashboard.py:205-219); the template is rendered with the five results
\* (app.py:90-106).
DashboardSentQuery ==
    /\ DashboardAt("sent_query")
    /\ last' = [last EXCEPT !.pc = "done",
                            !.chart_amount_distribution =
                                Some([labels |-> <<"Received", "Sent">>,
                                      data |-> <<TotalOr0(Val(last.received_query)),
                                                 TotalOr0(sent_query(store, last.user))>>])]
    /\ UNCHANGED <<store, body, extracted, amount, pieces>>

DashboardNext ==
    \/ DashCommit
    \/ Dashboard
    \/ DashboardTotalSms
    \/ DashboardTypeCounts
    \/ DashboardVolumeByType
    \/ DashboardMonthlyVolume
    \/ DashboardReceivedQuery
    \/ DashboardSentQuery
    \/ Respond

SpecDashboard == Init /\ [][DashboardNext]_vars

\* C12: in a type summary received_sms is the number of the user's
\* transactions of type "1", sent_sms the number of type "2",
\* unknown_type_sms the number of every other type code or of no type, and
\* total_sms is the number of the user's transactions and the sum of the
\* three. The summary is the one the dashboard gets from
\* get_transaction_summary, the transactions are those of the table as the
\* call returns.
C12_SummaryPartition ==
    [][(DashboardAt("type_counts") /\ last'.pc = "volume_by_type") =>
          LET s == Val(last'.summary_counts)
              u == last.user
          IN  /\ s.received_sms = Cardinality(OfType(u, T_1))
              /\ s.sent_sms = Cardinality(OfType(u, T_2))
              /\ s.unknown_type_sms =
                    Cardinality(Owned(u) \ (OfType(u, T_1) \cup OfType(u, T_2)))
              /\ s.total_sms = Cardinality(Owned(u))
              /\ s.total_sms = s.received_sms + s.sent_sms + s.unknown_type_sms]_vars

-----------------------------------------------------------------------------
(* backend/database.py: get_db, and the units of work that run inside it *)

\* The most rows of the table while sessions are followed.
MaxSessionRows == 2

\* The most records of a batch while sessions are followed.
MaxSessionBatch == 2

SessionBatches == SeqsUpTo({SmsRecord(SmsSent), BadRecord}, MaxSessionBatch)

\* Filters that return, that raise the ValueError the function raises
\* itself, and that raise the OverflowError it does not catch.
SessionFilters ==
    {NoFilters,
     [NoFilters EXCEPT !.start_date = Some(D_2024_02_30)],
     [NoFilters EXCEPT !.end_date = Some(D_9999_12_31)]}

\* The units of work: the function called and its argument beside user_id.
Units ==
    ({"insert"} \X SessionBatches)
        \cup ({"list"} \X SessionFilters)
        \cup ({"get_by_id"} \X (1..MaxSessionRows))
        \cup ({"summary", "volume_by_type", "monthly_volume", "distribution"} \X {None})

\* The statements a query sends inside its with block: the type summary and
\* the received/sent distribution two (dashboard.py:95-99, 194-211), the
\* others one.
Statements(op) == IF op \in {"summary", "distribution"} THEN 2 ELSE 1

\* A session that the end of the with block leaves as it is.
SessionLeftAsIs(session) == session

\* get_db, the finally clause: session.close().
SessionAfterExit(session) == "closed"

\* What the loop makes of each record of a batch before it constructs it.
PreparedBatch(parsed_data, user_id) ==
    [k \in 1..Len(parsed_data) |-> PreparedRecord(parsed_data[k], user_id)]

\* A unit of work is called. An insert of no records returns before it
\* asks for a session. prepared holds the records of a batch as the loop
\* will hand them to the constructor.
Call ==
    /\ last = IdleLast
    /\ \E u \in Users, unit \in Units :
          last' = [op |-> unit[1], user |-> u, input |-> unit[2],
                   pc |-> IF unit[1] = "insert" /\ unit[2] = <<>> THEN "done" ELSE "enter",
                   session |-> "none", closes |-> 0,
                   prepared |-> IF unit[1] = "insert" THEN PreparedBatch(unit[2], u) ELSE <<>>,
                   next |-> 1, pending |-> <<>>, count |-> 0,
                   statements |-> IF unit[1] = "insert" THEN 0 ELSE Statements(unit[1]),
                   rolled_back |-> FALSE, raised |-> ""]
    /\ UNCHANGED <<store, body, extracted, amount, pieces>>

\* with get_db() as db_session: Session() is made and yielded.
Enter ==
    /\ last # IdleLast
    /\ last.pc = "enter"
    /\ last' = [last EXCEPT !.session = "open",
                            !.pc = IF last.op = "insert" THEN "loop" ELSE "query"]
    /\ UNCHANGED <<store, body, extracted, amount, pieces>>

\* One turn of the insert loop on the unit of work l: the record is
\* constructed, added and counted, or the exception of its construction is
\* caught and it is skipped.
LoopTurn(l) ==
    LET rec == l.prepared[l.next]
    IN  [l EXCEPT !.next = @ + 1,
                  !.pending = IF CanConstruct(rec) THEN Append(@, rec) ELSE @,
                  !.count = IF CanConstruct(rec) THEN @ + 1 ELSE @]

AddRecord ==
    /\ last # IdleLast
    /\ last.pc = "loop"
    /\ last.next <= Len(last.input)
    /\ last' = LoopTurn(last)
    /\ UNCHANGED <<store, body, extracted, amount, pieces>>

\* After the loop: the commit, or its failure, the rollback and the count
\* set to 0.
CommitBatch ==
    /\ last # IdleLast
    /\ last.pc = "loop"
    /\ last.next > Len(last.input)
    /\ \E commit_ok \in BOOLEAN :
       \E after \in Commit(store, last.pending, commit_ok) :
          /\ Len(after) <= MaxSessionRows
          /\ store' = after
          /\ last' = [last EXCEPT !.pc = "exit",
                                  !.count = IF Commits(store, last.pending, commit_ok)
                                            THEN @ ELSE 0,
                                  !.rolled_back = ~Commits(store, last.pending, commit_ok)]
    /\ UNCHANGED <<body, extracted, amount, pieces>>

\* The body of a query, one statement at a time: get_user_transactions
\* raises out of the with block before its statement, the others run their
\* statements and return.
RunQuery ==
    /\ last # IdleLast
    /\ last.pc = "query"
    /\ last' = IF last.op = "list" /\ DateFilterRaises(last.input) # ""
               THEN [last EXCEPT !.pc = "exit", !.raised = DateFilterRaises(last.input)]
               ELSE [last EXCEPT !.pc = IF last.statements = 1 THEN "exit" ELSE "query",
                                 !.statements = @ - 1]
    /\ UNCHANGED <<store, body, extracted, amount, pieces>>

\* The with block is left, by return or by exception: the finally clause
\* of get_db runs.
Exit ==
    /\ last # IdleLast
    /\ last.pc = "exit"
    /\ last' = [last EXCEPT !.pc = "done",
                            !.session = SessionAfterExit(@),
                            !.closes = @ + 1]
    /\ UNCHANGED <<store, body, extracted, amount, pieces>>

\* The unit of work has returned or raised to its caller.
Finish ==
    /\ last # IdleLast
    /\ last.pc = "done"
    /\ last' = IdleLast
    /\ UNCHANGED <<store, body, extracted, amount, pieces>>

\* The steps of a unit of work that was called: it runs to its end.
SessionRun == Enter \/ AddRecord \/ CommitBatch \/ RunQuery \/ Exit

SessionNext == Call \/ Enter \/ AddRecord \/ CommitBatch \/ RunQuery \/ Exit \/ Finish

SpecSession == Init /\ [][SessionNext]_vars /\ WF_vars(SessionRun)

\* C15: a session a unit of work has acquired is in the end closed, and
\* closed once: no unit is done with its session open, a unit that is done
\* has closed the session it acquired exactly once, and no session is
\* closed twice; this on return, on an exception out of the query, after a
\* record that could not be constructed and after a failed commit.
C15_SessionReleased ==
    /\ [](last # IdleLast =>
            /\ last.closes <= 1
            /\ last.session = "closed" <=> last.closes = 1
            /\ last.pc = "done" => last.session # "open")
    /\ (last # IdleLast /\ last.session = "open")
          ~> (last # IdleLast /\ last.session = "closed" /\ last.closes = 1)

\* C15 witness: an insert that skipped a record and whose commit failed is
\* done, rolled back, with its session closed.
C15_Witness ==
    /\ last # IdleLast
    /\ last.op = "insert"
    /\ last.pc = "done"
    /\ last.rolled_back
    /\ last.pending # <<>>
    /\ Len(last.pending) < Len(last.input)
    /\ last.session = "closed"

====
